---- MODULE Spec2Model ----
(***************************************************************************)
(* A model of xlsxwriter/worksheet.py: the Worksheet cell store, its typed *)
(* write operations, the row/column overrides, merge_range and the two     *)
(* serialisation strategies (buffered _write_rows, streaming               *)
(* _write_single_row).                                                     *)
(*                                                                         *)
(* Every method of the class is an operator that takes the worksheet       *)
(* object w (a record of the fields set in __init__) and returns           *)
(* [w |-> the object after the call, ret |-> the value returned].  The     *)
(* actions apply one public method to the worksheet held in the variable   *)
(* ws.                                                                     *)
(*                                                                         *)
(* Text is a sequence of one-character strings.  A float is an integer     *)
(* number of 1/DaySecs units, the resolution of _convert_date_time on      *)
(* whole seconds.                                                          *)
(***************************************************************************)
EXTENDS Integers, Sequences, FiniteSets, TLC

VARIABLES
    ws,      \* the Worksheet object
    twin,    \* a second Worksheet object fed the same calls (SpecEquiv)
    last,    \* the last public call: method, arguments, returned value
    left,    \* number of public calls still allowed in this run
    closed   \* TRUE once _assemble_xml_file has run

vars == <<ws, twin, last, left, closed>>

(***************************************************************************)
(* Bounds.  The sheet limits of __init__ (xls_rowmax = 1048576,            *)
(* xls_colmax = 16384, xls_strmax = 32767; worksheet.py:167-169) are       *)
(* scaled down; the code compares against them and nothing else.           *)
(***************************************************************************)
xls_rowmax == 3
xls_colmax == 2
xls_strmax == 9
\* the 255 characters of a URL and the 65530 URLs of a sheet (write_url),
\* scaled down likewise
url_max == 11
hlink_max == 2
\* the number of public calls of one run
MaxOps == 2

\* Python's None (unset dimension, absent format, a bare `return`).
None == -9

\* 60 * 60 * 24, the seconds of a day.
DaySecs == 86400

Rows == 0 .. xls_rowmax          \* row arguments; xls_rowmax is out of bounds
Cols == 0 .. xls_colmax          \* column arguments; xls_colmax is out of bounds
CellFormats == {None, 1}         \* Format objects passed to cell writes
RowFormats  == {None, 2}         \* Format objects passed to set_row
ColFormats  == {None, 3}         \* Format objects passed to set_column

(***************************************************************************)
(* Text helpers: the str methods and regular expressions the code uses.    *)
(***************************************************************************)
Min2(a, b) == IF a < b THEN a ELSE b

\* s[i:] (0-based i, as in Python)
Tail_from(s, i) == SubSeq(s, i + 1, Len(s))

\* s.startswith(p), and re.match(p, s) for a literal pattern p
startswith(s, p) == Len(s) >= Len(p) /\ SubSeq(s, 1, Len(p)) = p

\* s.endswith(p)
endswith(s, p) == Len(s) >= Len(p) /\ SubSeq(s, Len(s) - Len(p) + 1, Len(s)) = p

\* s.replace(old, new): every non-overlapping occurrence, left to right
RECURSIVE replace(_, _, _)
replace(s, old, new) ==
    IF Len(s) = 0 THEN <<>>
    ELSE IF startswith(s, old) THEN new \o replace(Tail_from(s, Len(old)), old, new)
    ELSE <<Head(s)>> \o replace(Tail(s), old, new)

\* s.lstrip(ch) for a one-character set
RECURSIVE lstrip(_, _)
lstrip(s, ch) ==
    IF Len(s) > 0 /\ Head(s) = ch THEN lstrip(Tail(s), ch) ELSE s

\* s[i] (1-based), "" past the end
At(s, i) == IF i >= 1 /\ i <= Len(s) THEN s[i] ELSE ""

\* a string argument left at None
NoStr == <<"None">>

\* ch in s
contains(s, ch) == \E i \in 1 .. Len(s) : s[i] = ch

Digits == {"0", "1", "2", "3", "4", "5", "6", "7", "8", "9"}
HexDigits == Digits \cup {"a", "b", "c", "d", "e", "f", "A", "B", "C", "D", "E", "F"}

DigitVal(ch) ==
    CASE ch = "0" -> 0 [] ch = "1" -> 1 [] ch = "2" -> 2 [] ch = "3" -> 3
      [] ch = "4" -> 4 [] ch = "5" -> 5 [] ch = "6" -> 6 [] ch = "7" -> 7
      [] ch = "8" -> 8 [] ch = "9" -> 9

\* "%d" % n for one digit
DigitChar(n) == <<"0", "1", "2", "3", "4", "5", "6", "7", "8", "9">>[n + 1]

RECURSIVE DecimalVal(_)
DecimalVal(s) ==
    IF Len(s) = 0 THEN 0
    ELSE 10 * DecimalVal(SubSeq(s, 1, Len(s) - 1)) + DigitVal(s[Len(s)])

(***************************************************************************)
(* Payload tokens: what a caller can hand to write().                      *)
(***************************************************************************)
TokNone      == [ty |-> "None"]
TokNum(n)    == [ty |-> "num", n |-> n]
TokStr(s)    == [ty |-> "str", s |-> s]
\* a datetime.date: proleptic Gregorian ordinal; a datetime.time: seconds
\* since midnight; a datetime.datetime: both
TokDate(o)        == [ty |-> "date", ord |-> o, secs |-> 0]
TokTime(t)        == [ty |-> "time", ord |-> 0, secs |-> t]
TokDateTime(o, t) == [ty |-> "datetime", ord |-> o, secs |-> t]

\* float(token): [ok |-> FALSE] stands for ValueError.  Over the alphabet of
\* the model a string is accepted exactly when it is a non-empty run of
\* decimal digits.
float(token) ==
    IF token.ty = "num" THEN [ok |-> TRUE, val |-> token.n * DaySecs]
    ELSE IF token.ty = "str" /\ Len(token.s) > 0
            /\ \A i \in 1 .. Len(token.s) : token.s[i] \in Digits
    THEN [ok |-> TRUE, val |-> DecimalVal(token.s) * DaySecs]
    ELSE [ok |-> FALSE, val |-> 0]

(***************************************************************************)
(* Cell variants (the named tuples).                                       *)
(***************************************************************************)
cell_string_tuple(string, format) ==
    [type |-> "String", string |-> string, format |-> format]
cell_number_tuple(number, format) ==
    [type |-> "Number", number |-> number, format |-> format]
cell_blank_tuple(format) ==
    [type |-> "Blank", format |-> format]
cell_formula_tuple(formula, format, value) ==
    [type |-> "Formula", formula |-> formula, format |-> format, value |-> value]
cell_arformula_tuple(formula, format, value, range) ==
    [type |-> "ArrayFormula", formula |-> formula, format |-> format,
     value |-> value, range |-> range]

\* d[k] = v on a dict modelled as a function
Put(d, k, v) == (k :> v) @@ d

EmptyDict == [x \in {} |-> 0]

(***************************************************************************)
(* The Worksheet object after __init__ and _initialize.                    *)
(***************************************************************************)
Worksheet(optimization) ==
    [ xls_rowmax |-> xls_rowmax, xls_colmax |-> xls_colmax,
      \* the relationship counter and the r:id attributes the serialisation
      \* writes: one per external hyperlink cell, drawing, legacyDrawing
      rel_count |-> 0,
      r_ids |-> [hyperlinks |-> EmptyDict, drawing |-> None, legacyDrawing |-> None],
      optimization |-> optimization,
      dim_rowmin |-> None, dim_rowmax |-> None,
      dim_colmin |-> None, dim_colmax |-> None,
      table |-> EmptyDict,          \* (row, col) -> cell
      \* the temp file of the row data: _initialize opens it when
      \* optimization is on
      row_data_fh |-> IF optimization = 1 THEN "open" ELSE "none",
      row_data_filename |-> IF optimization = 1 THEN "present" ELSE "none",
      previous_row |-> 0,
      date_1904 |-> FALSE,
      set_rows |-> EmptyDict,       \* row -> <<height, format, hidden, level, collapsed>>
      default_row_height |-> 15,
      default_row_zeroed |-> 0,
      outline_row_level |-> 0,
      outline_col_level |-> 0,
      colinfo |-> <<>>,
      col_sizes |-> EmptyDict,
      row_sizes |-> EmptyDict,
      col_formats |-> EmptyDict,
      col_size_changed |-> 0,
      row_size_changed |-> 0,
      merge |-> <<>>,
      comments |-> {},              \* cells that carry a comment
      hyperlinks |-> EmptyDict,     \* (row, col) -> link
      hlink_count |-> 0,
      str_table |-> <<>>,           \* the shared string table
      row_spans |-> EmptyDict,
      tab_color |-> TokNum(0),      \* 0, then [ty |-> "color", argb |-> the colour]
      fit_page |-> 0,
      page_setup_changed |-> 0,
      print_options_changed |-> 0,
      header_footer_changed |-> 0,
      orientation |-> 1,
      hcenter |-> 0,
      header |-> <<>>,
      hbreaks |-> {},
      vbreaks |-> {},
      protect_options |-> EmptyDict,
      outline_changed |-> 0,
      has_vml |-> 0,
      autofilter_ref |-> <<>>,      \* None, then the range
      filter_on |-> 0,
      drawing |-> 0,
      images |-> <<>>,
      vba_codename |-> None,
      zoom |-> 100,
      print_scale |-> 100,
      fit_width |-> 0,
      fit_height |-> 0,
      outline_on |-> 1,
      outline_below |-> 1,
      outline_right |-> 1,
      outline_style |-> 0,
      autofilter_area |-> <<>>,
      filter_range |-> <<>>,
      filter_cols |-> EmptyDict,
      filter_type |-> EmptyDict,
      has_comments |-> 0,
      xml |-> <<>>,                 \* the top-level elements of the output
      validations |-> <<>>,         \* the option maps of data_validation
      tables |-> <<>>,              \* the tables of add_table
      cond_formats |-> EmptyDict,   \* range -> the option maps of conditional_format
      dxf_priority |-> 1,
      row_data |-> <<>>,            \* rows written to row_data_fh
      sheet_data |-> <<>> ]         \* the <sheetData> children of the output

\* the rows that hold a cell
TableRows(w) == {k[1] : k \in DOMAIN w.table}
\* self.table[row_num] is non-empty
RowHasCells(w, row_num) == \E k \in DOMAIN w.table : k[1] = row_num
CommentRows(w) == {k[1] : k \in w.comments}

(***************************************************************************)
(* _check_dimensions                                                       *)
(***************************************************************************)
_check_dimensions(w, row, col, ignore_row, ignore_col) ==
    IF row >= w.xls_rowmax \/ col >= w.xls_colmax
    THEN [w |-> w, ret |-> -1]
    ELSE IF ~ignore_row /\ ~ignore_col /\ w.optimization = 1
            /\ row < w.previous_row
    THEN [w |-> w, ret |-> -1]
    ELSE
      LET w1 == IF ~ignore_row
                THEN [w EXCEPT
                        !.dim_rowmin = IF @ = None \/ row < @ THEN row ELSE @,
                        !.dim_rowmax = IF @ = None \/ row > @ THEN row ELSE @]
                ELSE w
          w2 == IF ~ignore_col
                THEN [w1 EXCEPT
                        !.dim_colmin = IF @ = None \/ col < @ THEN col ELSE @,
                        !.dim_colmax = IF @ = None \/ col > @ THEN col ELSE @]
                ELSE w1
      IN [w |-> w2, ret |-> 0]

(***************************************************************************)
(* Serialisation: <row> and <c> elements.  An element is a record of its   *)
(* attributes; a <row> carries the sequence of its <c> children.           *)
(***************************************************************************)

\* cell_format._get_xf_index(): the style registry gives every Format a
\* stable index; the model names a Format by that index.
_get_xf_index(format) == format

\* range(lo, hi + 1) restricted to the members of S, in ascending order
RECURSIVE Ascending(_)
Ascending(S) ==
    IF S = {} THEN <<>>
    ELSE LET m == CHOOSE x \in S : \A y \in S : x <= y
         IN <<m>> \o Ascending(S \ {m})

_write_row(w, row, spans, properties, empty_row) ==
    LET has    == Len(properties) > 0
        height0 == IF has THEN properties[1] ELSE None
        cell_format == IF has THEN properties[2] ELSE None
        hidden == IF has THEN properties[3] ELSE 0
        level  == IF has THEN properties[4] ELSE 0
        collapsed == IF has THEN properties[5] ELSE 0
        height == IF height0 = None THEN w.default_row_height ELSE height0
        xf_index == IF cell_format # None THEN _get_xf_index(cell_format) ELSE 0
    IN [ tag |-> "row",
         r |-> row + 1,
         spans |-> spans,
         s |-> IF xf_index # 0 THEN xf_index ELSE None,
         customFormat |-> IF cell_format # None THEN 1 ELSE None,
         ht |-> IF height # 15 THEN height ELSE None,
         hidden |-> IF hidden # 0 THEN 1 ELSE None,
         customHeight |-> IF height # 15 THEN 1 ELSE None,
         outlineLevel |-> IF level # 0 THEN level ELSE None,
         collapsed |-> IF collapsed # 0 THEN 1 ELSE None,
         empty |-> empty_row,
         cells |-> <<>> ]

_write_empty_row(w, row, spans, properties) ==
    _write_row(w, row, spans, properties, TRUE)

\* self.set_rows[row_num] on the defaultdict: the stored override, or {}
RowProperties(w, row_num) ==
    IF row_num \in DOMAIN w.set_rows THEN w.set_rows[row_num] ELSE <<>>

\* cell_style with the column format looked up before the row override
cell_style_column_first(w, row, col, cell) ==
    IF cell.format # None
    THEN _get_xf_index(cell.format)
    ELSE IF col \in DOMAIN w.col_formats
    THEN _get_xf_index(w.col_formats[col])
    ELSE IF row \in DOMAIN w.set_rows /\ Len(w.set_rows[row]) > 0
            /\ w.set_rows[row][2] # None
    THEN _get_xf_index(w.set_rows[row][2])
    ELSE None

\* the 's' attribute _write_cell gives a cell: None when it appends none
cell_style(w, row, col, cell) ==
    IF cell.format # None
    THEN _get_xf_index(cell.format)
    ELSE IF row \in DOMAIN w.set_rows /\ Len(w.set_rows[row]) > 0
            /\ w.set_rows[row][2] # None
    THEN _get_xf_index(w.set_rows[row][2])
    ELSE IF col \in DOMAIN w.col_formats
    THEN _get_xf_index(w.col_formats[col])
    ELSE None

\* re.sub('(_x[0-9a-fA-F]{4}_)', r'_x005F\1', string)
IsEscapeAt(s) ==
    /\ Len(s) >= 7
    /\ s[1] = "_" /\ s[2] = "x" /\ s[7] = "_"
    /\ \A i \in 3 .. 6 : s[i] \in HexDigits

RECURSIVE escape_markers(_)
escape_markers(s) ==
    IF Len(s) = 0 THEN <<>>
    ELSE IF IsEscapeAt(s)
    THEN <<"_", "x", "0", "0", "5", "F">> \o SubSeq(s, 1, 7)
         \o escape_markers(Tail_from(s, 7))
    ELSE <<Head(s)>> \o escape_markers(Tail(s))

\* re.sub(r'([\x00-\x08\x0B-\x1F])', "_x%04X_" % ord(c), string); of that
\* range the alphabet of the model holds the form feed, \x0C
RECURSIVE escape_controls(_)
escape_controls(s) ==
    IF Len(s) = 0 THEN <<>>
    ELSE IF Head(s) = "\f"
    THEN <<"_", "x", "0", "0", "0", "C", "_">> \o escape_controls(Tail(s))
    ELSE <<Head(s)>> \o escape_controls(Tail(s))

Whitespace == {" ", "\t", "\n", "\r", "\f"}

_write_cell(w, row, col, cell) ==
    LET base == [tag |-> "c", row |-> row, col |-> col,
                 s |-> cell_style(w, row, col, cell)]
    IN
    CASE cell.type = "Number" ->
           [tag |-> "c", row |-> row, col |-> col, s |-> base.s,
            t |-> "n", number |-> cell.number]
      [] cell.type = "String" ->
           IF w.optimization = 0
           THEN [tag |-> "c", row |-> row, col |-> col, s |-> base.s,
                 t |-> "s", index |-> cell.string]
           ELSE LET string == escape_controls(escape_markers(cell.string))
                    rich == startswith(string, <<"<", "r", ">">>)
                            /\ endswith(string, <<"<", "/", "r", ">">>)
                    preserve == Len(string) > 0
                                /\ (string[1] \in Whitespace
                                    \/ string[Len(string)] \in Whitespace)
                IN [tag |-> "c", row |-> row, col |-> col, s |-> base.s,
                    t |-> "inlineStr", text |-> string, rich |-> rich,
                    preserve |-> ~rich /\ preserve]
      [] cell.type = "Formula" ->
           [tag |-> "c", row |-> row, col |-> col, s |-> base.s,
            t |-> "f", formula |-> cell.formula, value |-> cell.value]
      [] cell.type = "ArrayFormula" ->
           [tag |-> "c", row |-> row, col |-> col, s |-> base.s,
            t |-> "array", formula |-> cell.formula, ref |-> cell.range,
            value |-> cell.value]
      [] cell.type = "Blank" ->
           [tag |-> "c", row |-> row, col |-> col, s |-> base.s,
            t |-> "blank"]

\* for col_num in range(dim_colmin, dim_colmax + 1): if col_num in
\* self.table[row_num]: self._write_cell(...)
RowCells(w, row_num) ==
    LET cols == Ascending({c \in w.dim_colmin .. w.dim_colmax :
                              <<row_num, c>> \in DOMAIN w.table})
    IN [i \in 1 .. Len(cols) |->
           _write_cell(w, row_num, cols[i], w.table[<<row_num, cols[i]>>])]

\* the element _write_rows / _write_single_row emit for one row with content
RowElement(w, row_num, span) ==
    IF RowHasCells(w, row_num)
    THEN [_write_row(w, row_num, span, RowProperties(w, row_num), FALSE)
            EXCEPT !.cells = RowCells(w, row_num)]
    ELSE _write_empty_row(w, row_num, span, RowProperties(w, row_num))

_write_single_row(w, current_row_num) ==
    LET row_num == w.previous_row
        w1 == [w EXCEPT !.previous_row = current_row_num]
        w2 == IF row_num \in DOMAIN w1.set_rows \/ row_num \in CommentRows(w1)
                 \/ RowHasCells(w1, row_num)
              THEN [w1 EXCEPT !.row_data =
                                 Append(@, RowElement(w1, row_num, None))]
              ELSE w1
    IN [w2 EXCEPT !.table = EmptyDict]

(***************************************************************************)
(* Buffered serialisation.                                                 *)
(***************************************************************************)

\* SpanStep without the reset of span_min at the end of a block: the columns
\* of a block widen the spans of the blocks after it
SpanStep_unreset(w, acc, row_num) ==
    LET occupied == {c \in w.dim_colmin .. w.dim_colmax :
                        <<row_num, c>> \in DOMAIN w.table
                        \/ <<row_num, c>> \in w.comments}
        lo == CHOOSE x \in occupied : \A y \in occupied : x <= y
        hi == CHOOSE x \in occupied : \A y \in occupied : x >= y
        span_min == IF occupied = {} THEN acc.span_min
                    ELSE IF acc.span_min = None THEN lo
                    ELSE Min2(acc.span_min, lo)
        span_max == IF occupied = {} THEN acc.span_max
                    ELSE IF acc.span_min = None THEN hi
                    ELSE IF hi > acc.span_max THEN hi ELSE acc.span_max
        block_end == ((row_num + 1) % 16 = 0) \/ row_num = w.dim_rowmax
        span_index == row_num \div 16
    IN IF block_end /\ span_min # None
       THEN [spans |-> Put(acc.spans, span_index, <<span_min + 1, span_max + 1>>),
             span_min |-> span_min + 1, span_max |-> span_max + 1]
       ELSE [spans |-> acc.spans, span_min |-> span_min, span_max |-> span_max]

\* One pass of the loop body of _calculate_spans for row_num: the occupied
\* columns of the row (cells, then comments) widen span_min / span_max, and
\* the end of a block of 16 rows (or the last row) records the span.
SpanStep(w, acc, row_num) ==
    LET occupied == {c \in w.dim_colmin .. w.dim_colmax :
                        <<row_num, c>> \in DOMAIN w.table
                        \/ <<row_num, c>> \in w.comments}
        lo == CHOOSE x \in occupied : \A y \in occupied : x <= y
        hi == CHOOSE x \in occupied : \A y \in occupied : x >= y
        span_min == IF occupied = {} THEN acc.span_min
                    ELSE IF acc.span_min = None THEN lo
                    ELSE Min2(acc.span_min, lo)
        span_max == IF occupied = {} THEN acc.span_max
                    ELSE IF acc.span_min = None THEN hi
                    ELSE IF hi > acc.span_max THEN hi ELSE acc.span_max
        block_end == ((row_num + 1) % 16 = 0) \/ row_num = w.dim_rowmax
        span_index == row_num \div 16
    IN IF block_end /\ span_min # None
       THEN [spans |-> Put(acc.spans, span_index, <<span_min + 1, span_max + 1>>),
             span_min |-> None, span_max |-> span_max + 1]
       ELSE [spans |-> acc.spans, span_min |-> span_min, span_max |-> span_max]

RECURSIVE SpanLoop(_, _, _)
SpanLoop(w, acc, row_num) ==
    IF row_num > w.dim_rowmax THEN acc
    ELSE SpanLoop(w, SpanStep(w, acc, row_num), row_num + 1)

_calculate_spans(w) ==
    [w EXCEPT !.row_spans =
        SpanLoop(w, [spans |-> EmptyDict, span_min |-> None, span_max |-> None],
                 w.dim_rowmin).spans]

\* _write_rows: the rows from dim_rowmin to dim_rowmax that have an override,
\* a comment or a cell, each with the span of its block
_write_rows(w) ==
    LET w1 == _calculate_spans(w)
        rows == Ascending({r \in w1.dim_rowmin .. w1.dim_rowmax :
                             r \in DOMAIN w1.set_rows \/ r \in CommentRows(w1)
                             \/ RowHasCells(w1, r)})
        span(r) == IF (r \div 16) \in DOMAIN w1.row_spans
                   THEN w1.row_spans[r \div 16] ELSE None
    IN [w1 EXCEPT !.sheet_data =
           [i \in 1 .. Len(rows) |-> RowElement(w1, rows[i], span(rows[i]))]]

\* _write_sheet_data
_write_sheet_data(w) ==
    IF w.dim_rowmin = None THEN [w EXCEPT !.sheet_data = <<>>]
    ELSE _write_rows(w)

\* _write_optimized_sheet_data: the rows held in the row data file are copied
\* to the output
\* the temp file is read back, closed and unlinked only when the sheet has
\* a dimension
_write_optimized_sheet_data(w) ==
    IF w.dim_rowmin = None THEN [w EXCEPT !.sheet_data = <<>>]
    ELSE [w EXCEPT !.sheet_data = w.row_data,
                   !.row_data_fh = "closed", !.row_data_filename = "removed"]

\* The workbook flushes the row still held in the store before it assembles
\* a sheet written in optimisation mode: _write_single_row() with the default
\* current_row_num.
final_flush(w) == _write_single_row(w, 0)

(***************************************************************************)
(* The writers of the top-level elements (worksheet.py:3728-4775): each    *)
(* gives the names of the elements it adds to the <worksheet> element.     *)
(***************************************************************************)
_write_sheet_pr(w) ==
    IF w.fit_page = 0 /\ w.filter_on = 0 /\ w.tab_color = TokNum(0)
       /\ w.outline_changed = 0 /\ w.vba_codename = None
    THEN <<>> ELSE <<"sheetPr">>

_write_dimension(w) == <<"dimension">>

_write_sheet_views(w) == <<"sheetViews">>

_write_sheet_format_pr(w) == <<"sheetFormatPr">>

_write_cols(w) == IF w.colinfo = <<>> THEN <<>> ELSE <<"cols">>

_write_sheet_protection(w) == IF w.protect_options = EmptyDict THEN <<>> ELSE <<"sheetProtection">>

_write_auto_filter(w) == IF w.autofilter_ref = <<>> THEN <<>> ELSE <<"autoFilter">>

_write_merge_cells(w) == IF Len(w.merge) = 0 THEN <<>> ELSE <<"mergeCells">>

\* one <conditionalFormatting> for each range that has rules
_write_conditional_formats(w) ==
    [i \in 1 .. Cardinality(DOMAIN w.cond_formats) |-> "conditionalFormatting"]

_write_data_validations(w) == IF Len(w.validations) = 0 THEN <<>> ELSE <<"dataValidations">>

_write_hyperlinks(w) == IF DOMAIN w.hyperlinks = {} THEN <<>> ELSE <<"hyperlinks">>

_write_print_options(w) == IF w.print_options_changed = 0 THEN <<>> ELSE <<"printOptions">>

_write_page_margins(w) == <<"pageMargins">>

_write_page_setup(w) == IF w.page_setup_changed = 0 THEN <<>> ELSE <<"pageSetup">>

_write_header_footer(w) == IF w.header_footer_changed = 0 THEN <<>> ELSE <<"headerFooter">>

\* set(breaks) without 0
_sort_pagebreaks(breaks) == {b \in breaks : b # 0}

_write_row_breaks(w) == IF _sort_pagebreaks(w.hbreaks) = {} THEN <<>> ELSE <<"rowBreaks">>

_write_col_breaks(w) == IF _sort_pagebreaks(w.vbreaks) = {} THEN <<>> ELSE <<"colBreaks">>

_write_drawings(w) == IF w.drawing = 0 THEN <<>> ELSE <<"drawing">>

_write_legacy_drawing(w) == IF w.has_vml = 0 THEN <<>> ELSE <<"legacyDrawing">>

\* The r:id attributes (worksheet.py:4476-4524, 4749-4775).
\* _write_hyperlinks: the external links, in row then column order, take
\* the next values of rel_count
external_hyper_links(w) == {k \in DOMAIN w.hyperlinks : w.hyperlinks[k].link_type = 1}

hlink_refs(w) ==
    [k \in external_hyper_links(w) |->
        w.rel_count + Cardinality({j \in external_hyper_links(w) :
                                      j[1] < k[1] \/ (j[1] = k[1] /\ j[2] <= k[2])})]

hyperlink_ids(w) ==
    [w EXCEPT !.r_ids.hyperlinks = hlink_refs(w),
              !.rel_count = @ + Cardinality(external_hyper_links(w))]

_write_drawing(w, drawing_id) == [w EXCEPT !.r_ids.drawing = drawing_id]

\* _write_drawings: rel_count + 1, rel_count stays
drawing_ids(w) == IF w.drawing = 0 THEN w ELSE _write_drawing(w, w.rel_count + 1)

\* _write_legacy_drawing: rel_count += 1, then its value
legacy_drawing_ids(w) ==
    IF w.has_vml = 0 THEN w
    ELSE [w EXCEPT !.rel_count = @ + 1, !.r_ids.legacyDrawing = w.rel_count + 1]

\* _assemble_xml_file with the mergeCells element written after the
\* conditional formats
_assemble_xml_file_merge_late(w) ==
    LET w1 == IF w.optimization = 0 THEN _write_sheet_data(w)
              ELSE _write_optimized_sheet_data(final_flush(w))
    IN [legacy_drawing_ids(drawing_ids(hyperlink_ids(w1))) EXCEPT !.xml =
            _write_sheet_pr(w) \o _write_dimension(w) \o _write_sheet_views(w)
            \o _write_sheet_format_pr(w) \o _write_cols(w) \o <<"sheetData">>
            \o _write_sheet_protection(w) \o _write_auto_filter(w)
            \o _write_conditional_formats(w) \o _write_merge_cells(w)
            \o _write_data_validations(w) \o _write_hyperlinks(w)
            \o _write_print_options(w) \o _write_page_margins(w)
            \o _write_page_setup(w) \o _write_header_footer(w)
            \o _write_row_breaks(w) \o _write_col_breaks(w)
            \o _write_drawings(w) \o _write_legacy_drawing(w)]

\* _assemble_xml_file: the sheet data and the names of the top-level
\* elements, in the order they are written
_assemble_xml_file(w) ==
    LET w1 == IF w.optimization = 0 THEN _write_sheet_data(w)
              ELSE _write_optimized_sheet_data(final_flush(w))
    IN [legacy_drawing_ids(drawing_ids(hyperlink_ids(w1))) EXCEPT !.xml =
            _write_sheet_pr(w) \o _write_dimension(w) \o _write_sheet_views(w)
            \o _write_sheet_format_pr(w) \o _write_cols(w) \o <<"sheetData">>
            \o _write_sheet_protection(w) \o _write_auto_filter(w)
            \o _write_merge_cells(w) \o _write_conditional_formats(w)
            \o _write_data_validations(w) \o _write_hyperlinks(w)
            \o _write_print_options(w) \o _write_page_margins(w)
            \o _write_page_setup(w) \o _write_header_footer(w)
            \o _write_row_breaks(w) \o _write_col_breaks(w)
            \o _write_drawings(w) \o _write_legacy_drawing(w)]

(***************************************************************************)
(* The shared string table (sharedstrings.py).                             *)
(***************************************************************************)
\* str_table._get_shared_string_index(string): the index of the string,
\* interned on first use
_get_shared_string_index(str_table, string) ==
    IF \E i \in 1 .. Len(str_table) : str_table[i] = string
    THEN [str_table |-> str_table,
          index |-> (CHOOSE i \in 1 .. Len(str_table) : str_table[i] = string) - 1]
    ELSE [str_table |-> Append(str_table, string), index |-> Len(str_table)]

(***************************************************************************)
(* The date model.                                                         *)
(***************************************************************************)
\* datetime.datetime(1899, 12, 31).toordinal() and (1904, 1, 1).toordinal()
Epoch1900 == 693595
Epoch1904 == 695056
\* datetime.datetime(1900, 1, 1).toordinal(), the only date whose
\* isocalendar() is (1900, 1, 1)
Iso1900_1_1 == 693596

_is_supported_datetime(token) == token.ty \in {"datetime", "date", "time"}

\* _convert_date_time, in 1/DaySecs days
_convert_date_time(w, dt_obj) ==
    LET date_1904 == w.date_1904
        epoch == IF date_1904 THEN Epoch1904 ELSE Epoch1900
        ord == IF dt_obj.ty = "time" THEN epoch ELSE dt_obj.ord
        secs == IF dt_obj.ty = "date" THEN 0 ELSE dt_obj.secs
        excel_time == (ord - epoch) * DaySecs + secs
        t1 == IF ord = Iso1900_1_1 THEN excel_time - DaySecs ELSE excel_time
    IN IF ~date_1904 /\ t1 > 59 * DaySecs THEN t1 + DaySecs ELSE t1

(***************************************************************************)
(* The typed writes.                                                       *)
(***************************************************************************)

\* if self.optimization and row > self.previous_row: self._write_single_row(row)
FlushIfNewRow(w, row) ==
    IF w.optimization # 0 /\ row > w.previous_row
    THEN _write_single_row(w, row) ELSE w

\* Store that keeps the cell a position already holds (dict.setdefault)
Store_setdefault(w, row, col, cell) ==
    IF <<row, col>> \in DOMAIN w.table THEN w
    ELSE [w EXCEPT !.table = Put(@, <<row, col>>, cell)]

\* self.table[row][col] = cell
Store(w, row, col, cell) == [w EXCEPT !.table = Put(@, <<row, col>>, cell)]

\* write_string that stores no cell
write_string_unstored(w, row, col, string, cell_format) == [w |-> w, ret |-> 0]

write_string(w, row, col, string, cell_format) ==
    LET cd == _check_dimensions(w, row, col, FALSE, FALSE)
    IN IF cd.ret # 0 THEN [w |-> cd.w, ret |-> -1]
       ELSE
         LET too_long == Len(string) > xls_strmax
             string1 == IF too_long THEN SubSeq(string, 1, xls_strmax) ELSE string
             str_error == IF too_long THEN -2 ELSE 0
             shared == _get_shared_string_index(cd.w.str_table, string1)
             w1 == IF cd.w.optimization = 0
                   THEN [cd.w EXCEPT !.str_table = shared.str_table]
                   ELSE cd.w
             string_index == IF cd.w.optimization = 0 THEN shared.index
                             ELSE string1
             w2 == FlushIfNewRow(w1, row)
         IN [w |-> Store(w2, row, col, cell_string_tuple(string_index, cell_format)),
             ret |-> str_error]

\* number is a token float() accepts
write_number(w, row, col, number, cell_format) ==
    LET value == float(number).val
        cd == _check_dimensions(w, row, col, FALSE, FALSE)
    IN IF cd.ret # 0 THEN [w |-> cd.w, ret |-> -1]
       ELSE [w |-> Store(FlushIfNewRow(cd.w, row), row, col,
                         cell_number_tuple(value, cell_format)),
             ret |-> 0]

write_blank(w, row, col, blank, cell_format) ==
    IF cell_format = None THEN [w |-> w, ret |-> 0]
    ELSE
      LET cd == _check_dimensions(w, row, col, FALSE, FALSE)
      IN IF cd.ret # 0 THEN [w |-> cd.w, ret |-> -1]
         ELSE [w |-> Store(FlushIfNewRow(cd.w, row), row, col,
                           cell_blank_tuple(cell_format)),
               ret |-> 0]

\* xl_rowcol_to_cell / the 'A1:B2' range string, kept as coordinates
cell_range_of(first_row, first_col, last_row, last_col) ==
    IF first_row = last_row /\ first_col = last_col
    THEN <<first_row, first_col>>
    ELSE <<first_row, first_col, last_row, last_col>>

\* RangeCells without the `continue` that skips the anchor
RangeCells_with_anchor(first_row, first_col, last_row, last_col) ==
    LET width == last_col - first_col + 1
        n == (last_row - first_row + 1) * width
    IN [i \in 1 .. n |-> <<first_row + ((i - 1) \div width),
                           first_col + ((i - 1) % width)>>]

\* the cells of a range in the order of the nested for loops, the anchor left out
RangeCells(first_row, first_col, last_row, last_col) ==
    LET width == last_col - first_col + 1
        n == (last_row - first_row + 1) * width
    IN SelectSeq([i \in 1 .. n |-> <<first_row + ((i - 1) \div width),
                                      first_col + ((i - 1) % width)>>],
                 LAMBDA rc : rc # <<first_row, first_col>>)

\* for row ...: for col ...: self.write_number(row, col, 0, cell_format)
RECURSIVE pad_zeroes(_, _, _)
pad_zeroes(w, cells, cell_format) ==
    IF Len(cells) = 0 THEN w
    ELSE pad_zeroes(write_number(w, Head(cells)[1], Head(cells)[2],
                                 TokNum(0), cell_format).w,
                    Tail(cells), cell_format)

\* formula is non-empty and still non-empty once the braces and the '=' are
\* removed (formula[0] would raise IndexError otherwise)
write_array_formula(w, first_row0, first_col0, last_row0, last_col0, formula, cell_format, value) ==
    LET first_row == Min2(first_row0, last_row0)
        last_row  == IF first_row0 > last_row0 THEN first_row0 ELSE last_row0
        first_col == Min2(first_col0, last_col0)
        last_col  == IF first_col0 > last_col0 THEN first_col0 ELSE last_col0
        cd == _check_dimensions(w, last_row, last_col, FALSE, FALSE)
    IN IF cd.ret # 0 THEN [w |-> cd.w, ret |-> -1]
       ELSE
         LET cell_range == cell_range_of(first_row, first_col, last_row, last_col)
             f1 == IF formula[1] = "{" THEN Tail(formula) ELSE formula
             f2 == IF f1[1] = "=" THEN Tail(f1) ELSE f1
             f3 == IF f2[Len(f2)] = "}" THEN SubSeq(f2, 1, Len(f2) - 1) ELSE f2
             w1 == IF cd.w.optimization # 0 /\ first_row > cd.w.previous_row
                   THEN _write_single_row(cd.w, first_row) ELSE cd.w
             w2 == Store(w1, first_row, first_col,
                         cell_arformula_tuple(f3, cell_format, value, cell_range))
             w3 == IF w2.optimization = 0
                   THEN pad_zeroes(w2, RangeCells(first_row, first_col,
                                                  last_row, last_col), cell_format)
                   ELSE w2
         IN [w |-> w3, ret |-> 0]

write_formula(w, row, col, formula, cell_format, value) ==
    LET cd == _check_dimensions(w, row, col, FALSE, FALSE)
    IN IF cd.ret # 0 THEN [w |-> cd.w, ret |-> -1]
       ELSE IF startswith(formula, <<"{">>) /\ endswith(formula, <<"}">>)
       THEN write_array_formula(cd.w, row, col, row, col, formula,
                                cell_format, value)
       ELSE
         LET formula1 == IF startswith(formula, <<"=">>)
                         THEN lstrip(formula, "=") ELSE formula
         IN [w |-> Store(FlushIfNewRow(cd.w, row), row, col,
                         cell_formula_tuple(formula1, cell_format, value)),
             ret |-> 0]

write_datetime(w, row, col, date, cell_format) ==
    LET cd == _check_dimensions(w, row, col, FALSE, FALSE)
    IN IF cd.ret # 0 THEN [w |-> cd.w, ret |-> -1]
       ELSE
         LET w1 == FlushIfNewRow(cd.w, row)
             number == _convert_date_time(w1, date)
         IN [w |-> Store(w1, row, col, cell_number_tuple(number, cell_format)),
             ret |-> 0]

(***************************************************************************)
(* write_url                                                               *)
(***************************************************************************)
Letters ==
    {"a", "b", "c", "d", "e", "f", "g", "h", "i", "j", "k", "l", "m", "n",
     "o", "p", "q", "r", "s", "t", "u", "v", "w", "x", "y", "z",
     "A", "B", "C", "D", "E", "F", "G", "H", "I", "J", "K", "L", "M", "N",
     "O", "P", "Q", "R", "S", "T", "U", "V", "W", "X", "Y", "Z"}
WordChars == Letters \cup Digits \cup {"_"}

str_internal == <<"i", "n", "t", "e", "r", "n", "a", "l", ":">>
str_external == <<"e", "x", "t", "e", "r", "n", "a", "l", ":">>
str_mailto   == <<"m", "a", "i", "l", "t", "o", ":">>

\* the backquote character, which a TLA+ string cannot hold
chr_backquote == "BACKQUOTE"

\* re.search('%[0-9a-fA-F]{2}', url)
looks_escaped(url) ==
    \E i \in 1 .. Len(url) :
        url[i] = "%" /\ At(url, i + 1) \in HexDigits /\ At(url, i + 2) \in HexDigits

\* the chain of url.replace() calls that escapes an ordinary URL
escape_url(url) ==
    LET u1  == replace(url, <<"%">>, <<"%", "2", "5">>)
        u2  == replace(u1, <<"\"">>, <<"%", "2", "2">>)
        u3  == replace(u2, <<" ">>, <<"%", "2", "0">>)
        u4  == replace(u3, <<"<">>, <<"%", "3", "c">>)
        u5  == replace(u4, <<">">>, <<"%", "3", "e">>)
        u6  == replace(u5, <<"[">>, <<"%", "5", "b">>)
        u7  == replace(u6, <<"]">>, <<"%", "5", "d">>)
        u8  == replace(u7, <<"^">>, <<"%", "5", "e">>)
        u9  == replace(u8, <<chr_backquote>>, <<"%", "6", "0">>)
        u10 == replace(u9, <<"{">>, <<"%", "7", "b">>)
    IN replace(u10, <<"}">>, <<"%", "7", "d">>)

\* the index of the single '#' of url (url.split('#') of a url with one '#')
HashAt(url) == CHOOSE i \in 1 .. Len(url) : url[i] = "#"

\* url holds at most one '#' (url.split('#') would raise ValueError otherwise)
write_url(w, row, col, url0, cell_format, string0, tip) ==
    LET is_int == startswith(url0, str_internal)
        url1 == IF is_int THEN replace(url0, str_internal, <<>>) ELSE url0
        is_ext == startswith(url1, str_external)
        url2 == IF is_ext THEN replace(url1, str_external, <<>>) ELSE url1
        link_type0 == IF is_ext THEN 3 ELSE IF is_int THEN 2 ELSE 1
        string1 == IF string0 = NoStr THEN url2 ELSE string0
        url3 == IF link_type0 = 3 THEN replace(url2, <<"/">>, <<"\\">>) ELSE url2
        string2 == IF link_type0 = 3 THEN replace(string1, <<"/">>, <<"\\">>)
                   ELSE string1
        string == replace(string2, str_mailto, <<>>)
        cd == _check_dimensions(w, row, col, FALSE, FALSE)
    IN IF cd.ret # 0 THEN [w |-> cd.w, ret |-> -1]
       ELSE IF Len(string) > xls_strmax THEN [w |-> cd.w, ret |-> -2]
       ELSE
         LET has_hash == contains(url3, "#")
             split_url == IF has_hash THEN SubSeq(url3, 1, HashAt(url3) - 1) ELSE url3
             split_loc == IF has_hash THEN Tail_from(url3, HashAt(url3)) ELSE NoStr
             url4 == IF (At(split_url, 1) \in WordChars /\ At(split_url, 2) = ":")
                        \/ At(split_url, 1) = "\\"
                     THEN <<"f", "i", "l", "e", ":", "/", "/", "/">> \o split_url
                     ELSE split_url
             url5 == IF startswith(url4, <<".", "\\">>) THEN Tail_from(url4, 2)
                     ELSE url4
             url == CASE link_type0 = 1 ->
                           IF ~looks_escaped(url3) THEN escape_url(url3) ELSE url3
                      [] link_type0 = 3 -> url5
                      [] OTHER -> url3
             url_str == CASE link_type0 = 1 -> NoStr
                          [] link_type0 = 3 -> split_loc
                          [] OTHER -> string
             link_type == IF link_type0 = 3 THEN 1 ELSE link_type0
         IN IF Len(url) > url_max THEN [w |-> cd.w, ret |-> -3]
            ELSE
              LET w1 == [cd.w EXCEPT !.hlink_count = @ + 1]
              IN IF w1.hlink_count > hlink_max THEN [w |-> w1, ret |-> -5]
                 ELSE
                   LET w2 == IF w1.optimization = 1 /\ row > w1.previous_row
                             THEN _write_single_row(w1, row) ELSE w1
                       w3 == write_string(w2, row, col, string, cell_format).w
                   IN [w |-> [w3 EXCEPT !.hyperlinks =
                                 Put(@, <<row, col>>,
                                     [link_type |-> link_type, url |-> url,
                                      str |-> url_str, tip |-> tip])],
                       ret |-> 0]

(***************************************************************************)
(* write_rich_string.  A token of the argument list is a Format            *)
(* ([ty |-> "fmt", f |-> format]) or a string ([ty |-> "str", s |-> text]).*)
(***************************************************************************)
RichFmt(f) == [ty |-> "fmt", f |-> f]
RichStr(s) == [ty |-> "str", s |-> s]

\* the first loop: the token list with a default Format (0) put before every
\* string that follows a string; bad is TRUE where the loop returns -3
RECURSIVE rich_fragments(_, _, _)
rich_fragments(tokens, previous, pos) ==
    IF Len(tokens) = 0 THEN [bad |-> FALSE, fragments |-> <<>>, str_length |-> 0]
    ELSE
      LET token == Head(tokens)
          rest == rich_fragments(Tail(tokens),
                                 IF token.ty = "str" THEN "string" ELSE "format",
                                 pos + 1)
      IN IF token.ty = "str"
         THEN [bad |-> rest.bad,
               fragments |-> (IF previous # "format"
                              THEN <<RichFmt(0), token>> ELSE <<token>>)
                             \o rest.fragments,
               str_length |-> Len(token.s) + rest.str_length]
         ELSE IF previous = "format" /\ pos > 0
         THEN [bad |-> TRUE, fragments |-> <<>>, str_length |-> 0]
         ELSE [bad |-> rest.bad, fragments |-> <<token>> \o rest.fragments,
               str_length |-> rest.str_length]

\* _write_font: the <rPr> run properties of a Format, named by its index
_write_font(f) ==
    <<"<", "r", "P", "r", ">", "F", DigitChar(f), "<", "/", "r", "P", "r", ">">>

\* the second loop: the markup of the fragments
RECURSIVE rich_markup(_)
rich_markup(fragments) ==
    IF Len(fragments) = 0 THEN <<>>
    ELSE
      LET token == Head(fragments)
      IN (IF token.ty = "fmt"
          THEN <<"<", "r", ">">> \o _write_font(token.f)
          ELSE (IF Len(token.s) > 0 /\ (token.s[1] \in Whitespace
                                        \/ token.s[Len(token.s)] \in Whitespace)
                THEN <<"<", "t", " ", "xml:space", ">">>
                ELSE <<"<", "t", ">">>)
               \o token.s \o <<"<", "/", "t", ">", "<", "/", "r", ">">>)
         \o rich_markup(Tail(fragments))

\* tokens holds at least one string
write_rich_string(w, row, col, args) ==
    LET cd == _check_dimensions(w, row, col, FALSE, FALSE)
    IN IF cd.ret # 0 THEN [w |-> cd.w, ret |-> -1]
       ELSE
         LET last_is_format == args[Len(args)].ty = "fmt"
             cell_format == IF last_is_format THEN args[Len(args)].f ELSE None
             tokens == IF last_is_format THEN SubSeq(args, 1, Len(args) - 1)
                       ELSE args
             fr == rich_fragments(tokens, "format", 0)
         IN IF fr.bad THEN [w |-> cd.w, ret |-> -3]
            ELSE
              LET string == (IF fr.fragments[1].ty # "fmt"
                             THEN <<"<", "r", ">">> ELSE <<>>)
                            \o rich_markup(fr.fragments)
              IN IF fr.str_length > xls_strmax THEN [w |-> cd.w, ret |-> -2]
                 ELSE
                   LET shared == _get_shared_string_index(cd.w.str_table, string)
                       w1 == IF cd.w.optimization = 0
                             THEN [cd.w EXCEPT !.str_table = shared.str_table]
                             ELSE cd.w
                       string_index == IF cd.w.optimization = 0 THEN shared.index
                                       ELSE string
                   IN [w |-> Store(FlushIfNewRow(w1, row), row, col,
                                   cell_string_tuple(string_index, cell_format)),
                       ret |-> 0]

(***************************************************************************)
(* The generic write().                                                    *)
(***************************************************************************)
\* re.match('[fh]tt?ps?://', token)
match_url_scheme(s) ==
    LET i1 == IF At(s, 3) = "t" THEN 4 ELSE 3
        i2 == IF At(s, i1) = "p" THEN i1 + 1 ELSE i1
        i3 == IF At(s, i2) = "s" THEN i2 + 1 ELSE i2
    IN /\ At(s, 1) \in {"f", "h"}
       /\ At(s, 2) = "t"
       /\ At(s, i3) = ":" /\ At(s, i3 + 1) = "/" /\ At(s, i3 + 2) = "/"

\* the write_*() method write() hands the token to
write_method(token0) ==
    LET token == IF token0.ty = "None" THEN TokStr(<<>>) ELSE token0
    IN IF _is_supported_datetime(token) THEN "write_datetime"
       ELSE IF float(token).ok THEN "write_number"
       ELSE IF token.s = <<>> THEN "write_blank"
       ELSE IF startswith(token.s, <<"=">>) THEN "write_formula"
       ELSE IF startswith(token.s, <<"{">>) /\ endswith(token.s, <<"}">>)
       THEN "write_formula"
       ELSE IF match_url_scheme(token.s) THEN "write_url"
       ELSE IF startswith(token.s, str_mailto) THEN "write_url"
       ELSE IF startswith(token.s, str_internal) \/ startswith(token.s, str_external)
       THEN "write_url"
       ELSE "write_string"

\* write(row, col, token, cell_format): the typed writes get *args, that is
\* the token as the caller gave it and the format
write(w, row, col, token, cell_format) ==
    LET method == write_method(token)
    IN CASE method = "write_datetime" -> write_datetime(w, row, col, token, cell_format)
         [] method = "write_number"   -> write_number(w, row, col, token, cell_format)
         [] method = "write_blank"    -> write_blank(w, row, col, token, cell_format)
         [] method = "write_formula"  -> write_formula(w, row, col, token.s, cell_format, 0)
         [] method = "write_url"      -> write_url(w, row, col, token.s, cell_format, NoStr, None)
         [] method = "write_string"   -> write_string(w, row, col, token.s, cell_format)

(***************************************************************************)
(* Row and column overrides, merged ranges.                                *)
(***************************************************************************)
\* the outline level without its limits
outline_level_unlimited(level) == level

\* level clamped to 0..7
outline_level(level) == IF level < 0 THEN 0 ELSE IF level > 7 THEN 7 ELSE level

set_column(w, firstcol0, lastcol0, width, cell_format, hidden, level0, collapsed) ==
    LET firstcol == Min2(firstcol0, lastcol0)
        lastcol == IF firstcol0 > lastcol0 THEN firstcol0 ELSE lastcol0
        ignore_col == ~(cell_format # None
                        \/ (width # None /\ width # 0 /\ hidden))
        cd1 == _check_dimensions(w, 0, lastcol, TRUE, ignore_col)
        cd2 == _check_dimensions(cd1.w, 0, firstcol, TRUE, ignore_col)
    IN IF cd1.ret # 0 THEN [w |-> cd1.w, ret |-> -1]
       ELSE IF cd2.ret # 0 THEN [w |-> cd2.w, ret |-> -1]
       ELSE
         LET level == outline_level(level0)
             width1 == IF hidden THEN 0 ELSE width
             w1 == [cd2.w EXCEPT
                      !.outline_col_level = IF level > @ THEN level ELSE @,
                      !.colinfo = Append(@, <<firstcol, lastcol, width, cell_format,
                                              hidden, level, collapsed>>),
                      !.col_size_changed = 1,
                      !.col_sizes = [c \in (DOMAIN @) \cup (firstcol .. lastcol) |->
                                        IF c \in firstcol .. lastcol THEN width1
                                        ELSE @[c]],
                      !.col_formats =
                          IF cell_format # None
                          THEN [c \in (DOMAIN @) \cup (firstcol .. lastcol) |->
                                   IF c \in firstcol .. lastcol THEN cell_format
                                   ELSE @[c]]
                          ELSE @]
         IN [w |-> w1, ret |-> 0]

set_row(w, row, height0, cell_format, hidden0, level0, collapsed) ==
    LET min_col == IF w.dim_colmin # None THEN w.dim_colmin ELSE 0
        cd == _check_dimensions(w, row, min_col, FALSE, FALSE)
    IN IF cd.ret # 0 THEN [w |-> cd.w, ret |-> -1]
       ELSE
         LET height1 == IF height0 = None THEN cd.w.default_row_height ELSE height0
             hidden == IF height1 = 0 THEN TRUE ELSE hidden0
             height == IF height1 = 0 THEN cd.w.default_row_height ELSE height1
             level == outline_level(level0)
         IN [w |-> [cd.w EXCEPT
                      !.outline_row_level = IF level > @ THEN level ELSE @,
                      !.set_rows = Put(@, row, <<height, cell_format,
                                                 IF hidden THEN 1 ELSE 0,
                                                 level,
                                                 IF collapsed THEN 1 ELSE 0>>),
                      !.row_size_changed = 1,
                      !.row_sizes = Put(@, row, height)],
             ret |-> None]

\* for row ...: for col ...: self.write_blank(row, col, '', cell_format)
RECURSIVE pad_blanks(_, _, _)
pad_blanks(w, cells, cell_format) ==
    IF Len(cells) = 0 THEN w
    ELSE pad_blanks(write_blank(w, Head(cells)[1], Head(cells)[2],
                                TokStr(<<>>), cell_format).w,
                    Tail(cells), cell_format)

merge_range(w, first_row0, first_col0, last_row0, last_col0, data, cell_format) ==
    IF first_row0 = last_row0 /\ first_col0 = last_col0
    THEN [w |-> w, ret |-> None]
    ELSE
      LET first_row == Min2(first_row0, last_row0)
          last_row  == IF first_row0 > last_row0 THEN first_row0 ELSE last_row0
          first_col == Min2(first_col0, last_col0)
          last_col  == IF first_col0 > last_col0 THEN first_col0 ELSE last_col0
          cd == _check_dimensions(w, last_row, first_col, FALSE, FALSE)
      IN IF cd.ret # 0 THEN [w |-> cd.w, ret |-> None]
         ELSE
           LET w1 == [cd.w EXCEPT !.merge =
                         Append(@, <<first_row, first_col, last_row, last_col>>)]
               w2 == write(w1, first_row, first_col, data, cell_format).w
           IN [w |-> pad_blanks(w2, RangeCells(first_row, first_col,
                                               last_row, last_col), cell_format),
               ret |-> None]

(***************************************************************************)
(* Public calls.  A call is a record of the method name, its arguments and *)
(* the value it returned.                                                  *)
(***************************************************************************)
Call(op, row, col, last_row, last_col, cell_format, arg) ==
    [op |-> op, row |-> row, col |-> col, last_row |-> last_row,
     last_col |-> last_col, cell_format |-> cell_format, arg |-> arg,
     ret |-> None]

\* the public call c on ws came back with r = [w, ret]
Return(c, r) ==
    /\ ws' = r.w
    /\ last' = [c EXCEPT !.ret = r.ret]
    /\ left' = left - 1
    /\ UNCHANGED <<twin, closed>>

(***************************************************************************)
(* Arguments.                                                              *)
(***************************************************************************)
ShortText == <<"a", "b">>
\* a text longer than xls_strmax
LongText == [i \in 1 .. xls_strmax + 2 |-> "x"]
PlainFormula == <<"=", "1">>
ArrayFormulaText == <<"{", "=", "1", "}">>
HttpUrl == <<"h", "t", "t", "p", ":", "/", "/", "a">>
InternalUrl == <<"i", "n", "t", "e", "r", "n", "a", "l", ":", "A", "1">>
\* a URL longer than url_max
LongUrl == <<"h", "t", "t", "p", ":", "/", "/">> \o [i \in 1 .. url_max |-> "u"]
\* 1900-03-01 and 12:00
SomeDate == TokDate(693655)
Noon == TokTime(43200)

UrlArg(url, string) == [ty |-> "url", s |-> url, string |-> string]
RichArg(args) == [ty |-> "rich", args |-> args]
RowArg(height, hidden, level) ==
    [ty |-> "row", height |-> height, hidden |-> hidden, level |-> level]
ColArg(width, hidden, level) ==
    [ty |-> "col", width |-> width, hidden |-> hidden, level |-> level]

UrlArgs == {UrlArg(HttpUrl, NoStr), UrlArg(HttpUrl, LongText),
            UrlArg(InternalUrl, ShortText), UrlArg(LongUrl, ShortText)}
RichArgs == {<<RichStr(ShortText), RichFmt(1), RichStr(ShortText)>>,
             <<RichStr(LongText), RichFmt(1)>>,
             <<RichFmt(1), RichFmt(1), RichStr(ShortText)>>}
WriteTokens == {TokNone, TokNum(5), TokStr(ShortText), TokStr(PlainFormula),
                TokStr(HttpUrl), SomeDate}

(***************************************************************************)
(* Actions of the worksheet: one public method each.  R and C are the rows *)
(* and columns the caller may name, F the Format objects it may pass.      *)
(***************************************************************************)
WriteString(R, C, F) ==
    \E row \in R, col \in C, string \in {ShortText, LongText}, cell_format \in F :
        /\ ~closed /\ left > 0
        /\ \E r \in {write_string(ws, row, col, string, cell_format)} :
              Return(Call("write_string", row, col, row, col, cell_format,
                          TokStr(string)), r)

WriteNumber(R, C, F) ==
    \E row \in R, col \in C, cell_format \in F :
        /\ ~closed /\ left > 0
        /\ \E r \in {write_number(ws, row, col, TokNum(5), cell_format)} :
              Return(Call("write_number", row, col, row, col, cell_format,
                          TokNum(5)), r)

WriteBlank(R, C, F) ==
    \E row \in R, col \in C, cell_format \in F :
        /\ ~closed /\ left > 0
        /\ \E r \in {write_blank(ws, row, col, TokStr(<<>>), cell_format)} :
              Return(Call("write_blank", row, col, row, col, cell_format,
                          TokStr(<<>>)), r)

WriteFormula(R, C, F) ==
    \E row \in R, col \in C, formula \in {PlainFormula, ArrayFormulaText},
       cell_format \in F :
        /\ ~closed /\ left > 0
        /\ \E r \in {write_formula(ws, row, col, formula, cell_format, 0)} :
              Return(Call("write_formula", row, col, row, col, cell_format,
                          TokStr(formula)), r)

WriteArrayFormula(R, C, F) ==
    \E first_row \in R, first_col \in C, last_row \in R, last_col \in C,
       cell_format \in F :
        /\ ~closed /\ left > 0
        /\ \E r \in {write_array_formula(ws, first_row, first_col, last_row,
                                          last_col, ArrayFormulaText,
                                          cell_format, 0)} :
              Return(Call("write_array_formula", first_row, first_col, last_row,
                          last_col, cell_format, TokStr(ArrayFormulaText)), r)

WriteDatetime(R, C, F) ==
    \E row \in R, col \in C, cell_format \in F :
        /\ ~closed /\ left > 0
        /\ \E r \in {write_datetime(ws, row, col, SomeDate, cell_format)} :
              Return(Call("write_datetime", row, col, row, col, cell_format,
                          SomeDate), r)

WriteUrl(R, C, F) ==
    \E row \in R, col \in C, arg \in UrlArgs, cell_format \in F :
        /\ ~closed /\ left > 0
        /\ \E r \in {write_url(ws, row, col, arg.s, cell_format, arg.string, None)} :
              Return(Call("write_url", row, col, row, col, cell_format, arg), r)

WriteRichString(R, C) ==
    \E row \in R, col \in C, args \in RichArgs :
        /\ ~closed /\ left > 0
        /\ \E r \in {write_rich_string(ws, row, col, args)} :
              Return(Call("write_rich_string", row, col, row, col, None,
                          RichArg(args)), r)

Write(R, C, F, T) ==
    \E row \in R, col \in C, token \in T, cell_format \in F :
        /\ ~closed /\ left > 0
        /\ \E r \in {write(ws, row, col, token, cell_format)} :
              Return(Call("write", row, col, row, col, cell_format, token), r)

MergeRange(R, C, F) ==
    \E first_row \in R, first_col \in C, last_row \in R, last_col \in C,
       cell_format \in F :
        /\ ~closed /\ left > 0
        /\ \E r \in {merge_range(ws, first_row, first_col, last_row, last_col,
                                  TokStr(ShortText), cell_format)} :
              Return(Call("merge_range", first_row, first_col, last_row, last_col,
                          cell_format, TokStr(ShortText)), r)

SetRow(R, F, H, L) ==
    \E row \in R, cell_format \in F, height \in H, level \in L :
        /\ ~closed /\ left > 0
        /\ \E r \in {set_row(ws, row, height, cell_format, FALSE, level, FALSE)} :
              Return(Call("set_row", row, None, row, None, cell_format,
                          RowArg(height, FALSE, level)), r)

SetColumn(C, F, W, Hd) ==
    \E firstcol \in C, lastcol \in C, cell_format \in F, width \in W, hidden \in Hd :
        /\ ~closed /\ left > 0
        /\ \E r \in {set_column(ws, firstcol, lastcol, width, cell_format,
                                 hidden, 0, FALSE)} :
              Return(Call("set_column", None, firstcol, None, lastcol, cell_format,
                          ColArg(width, hidden, 0)), r)

\* the workbook closes the sheet: _assemble_xml_file
Close ==
    /\ ~closed
    /\ ws' = _assemble_xml_file(ws)
    /\ closed' = TRUE
    /\ last' = Call("close", None, None, None, None, None, TokNone)
    /\ UNCHANGED <<twin, left>>

NoCall == Call("init", None, None, None, None, None, TokNone)

(***************************************************************************)
(* Spec: every public method, on a sheet in either mode, with arguments    *)
(* inside and outside the sheet limits.                                    *)
(***************************************************************************)
Init ==
    /\ ws \in {Worksheet(0), Worksheet(1)}
    /\ twin = Worksheet(0)
    /\ last = NoCall
    /\ left = MaxOps
    /\ closed = FALSE

Next ==
    \/ WriteString(Rows, Cols, CellFormats)
    \/ WriteNumber(Rows, Cols, CellFormats)
    \/ WriteBlank(Rows, Cols, CellFormats)
    \/ WriteFormula(Rows, Cols, CellFormats)
    \/ WriteArrayFormula(Rows, Cols, {1})
    \/ WriteDatetime(Rows, Cols, CellFormats)
    \/ WriteUrl(Rows, Cols, {None})
    \/ WriteRichString(Rows, Cols)
    \/ Write(Rows, Cols, {1}, WriteTokens)
    \/ MergeRange(Rows, Cols, CellFormats)
    \/ SetRow(Rows, RowFormats, {None, 0}, {0})
    \/ SetColumn(Cols, ColFormats, {None}, {FALSE})
    \/ Close

Spec == Init /\ [][Next]_vars


(***************************************************************************)
(* SpecDispatch: one generic write() of each kind of payload.              *)
(***************************************************************************)
DispatchTexts ==
    { <<>>, ShortText, <<"1", "2">>, PlainFormula, ArrayFormulaText, <<"{", "1">>,
      HttpUrl,
      <<"h", "t", "t", "p", "s", ":", "/", "/", "a">>,
      <<"f", "t", "p", ":", "/", "/", "a">>,
      <<"f", "t", "p", "s", ":", "/", "/", "a">>,
      <<"m", "a", "i", "l", "t", "o", ":", "a">>,
      InternalUrl,
      <<"e", "x", "t", "e", "r", "n", "a", "l", ":", "a">>,
      <<"h", "t", "p", ":", "/", "/", "a">>,
      <<"f", "t", ":", "/", "/", "a">>,
      <<"h", "t", "t", "p", "a">> }

DispatchTokens ==
    {TokNone, TokNum(5), SomeDate, Noon, TokDateTime(693655, 43200)}
    \cup {TokStr(s) : s \in DispatchTexts}

InitDispatch ==
    /\ ws \in {Worksheet(0), Worksheet(1)}
    /\ twin = Worksheet(0)
    /\ last = NoCall
    /\ left = 1
    /\ closed = FALSE

NextDispatch ==
    \/ Write(Rows, Cols, CellFormats, DispatchTokens)
    \/ Close

SpecDispatch == InitDispatch /\ [][NextDispatch]_vars

(***************************************************************************)
(* SpecCells: typed writes to a few cells of a buffered sheet.             *)
(***************************************************************************)
\* the number of writes of one run of SpecCells
CellOps == 2

CellRows == {0}
CellCols == {0, 1}

InitCells ==
    /\ ws = Worksheet(0)
    /\ twin = Worksheet(0)
    /\ last = NoCall
    /\ left = CellOps
    /\ closed = FALSE

NextCells ==
    \/ WriteString(CellRows, CellCols, CellFormats)
    \/ WriteNumber(CellRows, CellCols, CellFormats)
    \/ WriteBlank(CellRows, CellCols, CellFormats)
    \/ WriteFormula(CellRows, CellCols, CellFormats)
    \/ WriteArrayFormula(CellRows, CellCols, {1})
    \/ WriteDatetime(CellRows, CellCols, CellFormats)

SpecCells == InitCells /\ [][NextCells]_vars

(***************************************************************************)
(* SpecStyle: cells, row overrides and column formats in any order, then   *)
(* the sheet is closed; both modes.                                        *)
(***************************************************************************)
\* the number of calls of one run of SpecStyle
StyleOps == 3

StyleRows == {0, 1}
StyleCols == {0, 1}

InitStyle ==
    /\ ws \in {Worksheet(0), Worksheet(1)}
    /\ twin = Worksheet(0)
    /\ last = NoCall
    /\ left = StyleOps
    /\ closed = FALSE

NextStyle ==
    \/ WriteNumber(StyleRows, StyleCols, CellFormats)
    \/ SetRow(StyleRows, RowFormats, {None}, {0})
    \/ SetColumn(StyleCols, ColFormats, {None}, {FALSE})
    \/ Close

SpecStyle == InitStyle /\ [][NextStyle]_vars

(***************************************************************************)
(* SpecEquiv: a streaming sheet (ws) and a buffered sheet (twin) are given *)
(* the same calls, each on a row greater than the row of the call before.  *)
(***************************************************************************)
\* the call c came back with r from ws and with t from twin
EqReturn(c, r, t) ==
    /\ ws' = r.w
    /\ twin' = t.w
    /\ last' = [c EXCEPT !.ret = r.ret]
    /\ left' = left - 1
    /\ UNCHANGED closed

EqWriteNumber ==
    \E row \in Rows, col \in Cols, cell_format \in CellFormats :
        /\ ~closed /\ left > 0 /\ row > last.row
        /\ \E r \in {write_number(ws, row, col, TokNum(5), cell_format)},
              t \in {write_number(twin, row, col, TokNum(5), cell_format)} :
              EqReturn(Call("write_number", row, col, row, col, cell_format,
                            TokNum(5)), r, t)

EqWriteString ==
    \E row \in Rows, col \in Cols, cell_format \in CellFormats :
        /\ ~closed /\ left > 0 /\ row > last.row
        /\ \E r \in {write_string(ws, row, col, ShortText, cell_format)},
              t \in {write_string(twin, row, col, ShortText, cell_format)} :
              EqReturn(Call("write_string", row, col, row, col, cell_format,
                            TokStr(ShortText)), r, t)

EqWriteBlank ==
    \E row \in Rows, col \in Cols, cell_format \in CellFormats :
        /\ ~closed /\ left > 0 /\ row > last.row
        /\ \E r \in {write_blank(ws, row, col, TokStr(<<>>), cell_format)},
              t \in {write_blank(twin, row, col, TokStr(<<>>), cell_format)} :
              EqReturn(Call("write_blank", row, col, row, col, cell_format,
                            TokStr(<<>>)), r, t)

EqWriteFormula ==
    \E row \in Rows, col \in Cols, cell_format \in CellFormats :
        /\ ~closed /\ left > 0 /\ row > last.row
        /\ \E r \in {write_formula(ws, row, col, PlainFormula, cell_format, 0)},
              t \in {write_formula(twin, row, col, PlainFormula, cell_format, 0)} :
              EqReturn(Call("write_formula", row, col, row, col, cell_format,
                            TokStr(PlainFormula)), r, t)

EqSetRow ==
    \E row \in Rows, cell_format \in RowFormats :
        /\ ~closed /\ left > 0 /\ row > last.row
        /\ \E r \in {set_row(ws, row, None, cell_format, FALSE, 0, FALSE)},
              t \in {set_row(twin, row, None, cell_format, FALSE, 0, FALSE)} :
              EqReturn(Call("set_row", row, None, row, None, cell_format,
                            RowArg(None, FALSE, 0)), r, t)

EqClose ==
    /\ ~closed
    /\ ws' = _assemble_xml_file(ws)
    /\ twin' = _assemble_xml_file(twin)
    /\ closed' = TRUE
    /\ last' = Call("close", None, None, None, None, None, TokNone)
    /\ UNCHANGED left

InitEquiv ==
    /\ ws = Worksheet(1)
    /\ twin = Worksheet(0)
    /\ last = NoCall
    /\ left = MaxOps
    /\ closed = FALSE

NextEquiv ==
    \/ EqWriteNumber
    \/ EqWriteString
    \/ EqWriteBlank
    \/ EqWriteFormula
    \/ EqSetRow
    \/ EqClose

SpecEquiv == InitEquiv /\ [][NextEquiv]_vars

(***************************************************************************)
(* Properties.                                                             *)
(***************************************************************************)
\* this step is a public call
Called == left' = left - 1

TypedWrites == {"write_string", "write_number", "write_blank", "write_formula",
                "write_datetime"}

OutOfBounds(c) == c.row >= xls_rowmax \/ c.col >= xls_colmax

\* the cell a call is aimed at: the top-left cell of its range
AnchorRow(c) == Min2(c.row, c.last_row)
AnchorCol(c) == Min2(c.col, c.last_col)
Anchor(c) == <<AnchorRow(c), AnchorCol(c)>>

\* the whole range of a call lies inside the sheet
RangeInBounds(c) ==
    /\ c.row \in 0 .. xls_rowmax - 1 /\ c.last_row \in 0 .. xls_rowmax - 1
    /\ c.col \in 0 .. xls_colmax - 1 /\ c.last_col \in 0 .. xls_colmax - 1

\* the text of a String cell: the shared string it indexes, or its inline text
CellText(w, cell) ==
    IF w.optimization = 0 THEN w.str_table[cell.string + 1] ELSE cell.string

\* C1: a typed single-cell write with row >= xls_rowmax or col >= xls_colmax
\* returns -1 and leaves the whole worksheet as it was.
C1_OutOfBoundsWriteRejected ==
    [][(Called /\ last'.op \in TypedWrites /\ OutOfBounds(last'))
          => (last'.ret = -1 /\ ws' = ws)]_vars

\* C2: in buffered mode every cell held in the store, the anchor of an array
\* formula included, lies inside the dimension box dim_rowmin..dim_rowmax x
\* dim_colmin..dim_colmax.
C2_StoredCellsInsideDimension ==
    (ws.optimization = 0 /\ ~closed) =>
        \A k \in DOMAIN ws.table :
            /\ ws.dim_rowmin # None /\ ws.dim_colmin # None
            /\ ws.dim_rowmin <= k[1] /\ k[1] <= ws.dim_rowmax
            /\ ws.dim_colmin <= k[2] /\ k[2] <= ws.dim_colmax

StreamWrites == {"write_string", "write_number", "write_blank", "write_formula",
                 "write_datetime", "write_url", "write_rich_string",
                 "write_array_formula"}

\* C3: in streaming mode a cell write (write_blank with a format) whose target
\* row, the anchor row of write_array_formula, is before the row being
\* collected returns -1 and stores no cell.
C3_FlushedRowWriteRejected ==
    [][(/\ Called
        /\ ws.optimization = 1
        /\ last'.op \in StreamWrites
        /\ (last'.op = "write_blank" => last'.cell_format # None)
        /\ AnchorRow(last') < ws.previous_row)
          => (last'.ret = -1 /\ ws'.table = ws.table)]_vars

\* C4: in streaming mode the store holds cells of at most one row.
C4_StoreHoldsOneRow ==
    ws.optimization = 1 => Cardinality(TableRows(ws)) <= 1

\* a <c> element without its string encoding: the kind of the cell, its
\* number, its text, its cached value
NormCell(w, e) ==
    [ row |-> e.row, col |-> e.col, s |-> e.s,
      kind |-> IF e.t \in {"s", "inlineStr"} THEN "string" ELSE e.t,
      number |-> IF e.t = "n" THEN e.number ELSE None,
      text |-> CASE e.t = "s" -> w.str_table[e.index + 1]
                 [] e.t = "inlineStr" -> e.text
                 [] e.t \in {"f", "array"} -> e.formula
                 [] OTHER -> <<>>,
      value |-> IF e.t \in {"f", "array"} THEN e.value ELSE None ]

\* a <row> element without its spans attribute
NormRow(w, e) ==
    [ r |-> e.r, s |-> e.s, customFormat |-> e.customFormat, ht |-> e.ht,
      hidden |-> e.hidden, customHeight |-> e.customHeight,
      outlineLevel |-> e.outlineLevel, collapsed |-> e.collapsed,
      empty |-> e.empty,
      cells |-> [i \in 1 .. Len(e.cells) |-> NormCell(w, e.cells[i])] ]

Normalise(w, rows) == [i \in 1 .. Len(rows) |-> NormRow(w, rows[i])]

\* the rows before row_num that buffered serialisation gives for w
BufferedRowsBefore(w, row_num) ==
    SelectSeq(_write_sheet_data(w).sheet_data, LAMBDA e : e.r - 1 < row_num)

\* C5: for calls in strictly increasing row order, the rows the streaming
\* sheet has flushed are the rows the buffered sheet serialises for the rows
\* before the one being collected, spans and string encoding apart.
C5_StreamingMatchesBuffered ==
    ~closed =>
        Normalise(ws, ws.row_data)
          = Normalise(twin, BufferedRowsBefore(twin, ws.previous_row))

CellWrites == {"write_string", "write_number", "write_blank", "write_formula",
               "write_array_formula", "write_datetime"}

IsArrayText(s) == startswith(s, <<"{">>) /\ endswith(s, <<"}">>)

\* the store of w holds, at the target of call c, the cell that c writes
HoldsCellOf(w, c) ==
    /\ Anchor(c) \in DOMAIN w.table
    /\ LET cell == w.table[Anchor(c)]
       IN /\ cell.format = c.cell_format
          /\ CASE c.op = "write_string" ->
                    cell.type = "String" /\ CellText(w, cell) = c.arg.s
               [] c.op = "write_number" ->
                    cell.type = "Number" /\ cell.number = c.arg.n * DaySecs
               [] c.op = "write_blank" -> cell.type = "Blank"
               [] c.op = "write_formula" /\ ~IsArrayText(c.arg.s) ->
                    cell.type = "Formula" /\ cell.formula = Tail(c.arg.s)
               [] c.op = "write_formula" /\ IsArrayText(c.arg.s) ->
                    cell.type = "ArrayFormula"
               [] c.op = "write_array_formula" ->
                    cell.type = "ArrayFormula"
                    /\ cell.range = cell_range_of(AnchorRow(c), AnchorCol(c),
                                                  IF c.row > c.last_row THEN c.row
                                                  ELSE c.last_row,
                                                  IF c.col > c.last_col THEN c.col
                                                  ELSE c.last_col)
               [] c.op = "write_datetime" ->
                    cell.type = "Number"
                    /\ cell.number = _convert_date_time(w, c.arg)

\* a typed write that returned 0 on a cell that already held one
SecondWrite ==
    /\ Called
    /\ ws.optimization = 0
    /\ last'.op \in CellWrites
    /\ last'.ret = 0
    /\ Anchor(last') \in DOMAIN ws.table

\* C6 (as stated): in buffered mode, after a typed write that returned 0 on a
\* cell that already held one, the cell held is the one the later call writes,
\* for every kind of write.
C6_LaterWriteReplaces ==
    [][SecondWrite => HoldsCellOf(ws', last')]_vars

\* C6 (amended): in buffered mode, after a typed write that returned 0 on a
\* cell that already held one, the cell held is the one the later call
\* writes, for every kind of write except write_blank without a format, which
\* returns 0 and leaves the store as it was.
C6_LaterWriteReplacesUnlessBareBlank ==
    [][SecondWrite =>
          IF last'.op = "write_blank" /\ last'.cell_format = None
          THEN ws' = ws
          ELSE HoldsCellOf(ws', last')]_vars

\* a formatted write_blank has replaced the string an earlier call wrote to
\* the only cell of the sheet
C6_Witness ==
    /\ last.op = "write_blank" /\ last.cell_format = 1 /\ last.ret = 0
    /\ left = 0
    /\ Len(ws.str_table) > 0
    /\ DOMAIN ws.table = {Anchor(last)}
    /\ ws.table[Anchor(last)].type = "Blank"

RecognizedSchemes ==
    { <<"h", "t", "t", "p", ":", "/", "/">>,
      <<"h", "t", "t", "p", "s", ":", "/", "/">>,
      <<"f", "t", "p", ":", "/", "/">>,
      <<"f", "t", "p", "s", ":", "/", "/">>,
      str_mailto, str_internal, str_external }

\* the typed write the order of precedence gives a payload
ClaimMethod(token0) ==
    LET token == IF token0.ty = "None" THEN TokStr(<<>>) ELSE token0
    IN IF token.ty \in {"datetime", "date", "time"} THEN "write_datetime"
       ELSE IF float(token).ok THEN "write_number"
       ELSE IF token.s = <<>> THEN "write_blank"
       ELSE IF startswith(token.s, <<"=">>) \/ IsArrayText(token.s)
       THEN "write_formula"
       ELSE IF \E scheme \in RecognizedSchemes : startswith(token.s, scheme)
       THEN "write_url"
       ELSE "write_string"

\* the typed write named method, given the arguments of write()
TypedWrite(method, w, row, col, token, cell_format) ==
    CASE method = "write_datetime" -> write_datetime(w, row, col, token, cell_format)
      [] method = "write_number"   -> write_number(w, row, col, token, cell_format)
      [] method = "write_blank"    -> write_blank(w, row, col, token, cell_format)
      [] method = "write_formula"  -> write_formula(w, row, col, token.s, cell_format, 0)
      [] method = "write_url"      -> write_url(w, row, col, token.s, cell_format,
                                                NoStr, None)
      [] method = "write_string"   -> write_string(w, row, col, token.s, cell_format)

\* C7: write() does what the typed write chosen by the order of precedence
\* (date/time, number, blank, formula, recognized URL scheme, string) does,
\* and returns what it returns.
C7_DispatchPrecedence ==
    [][(Called /\ last'.op = "write") =>
          \E r \in {TypedWrite(ClaimMethod(last'.arg), ws, last'.row, last'.col,
                               last'.arg, last'.cell_format)} :
              ws' = r.w /\ last'.ret = r.ret]_vars

\* the style the order of precedence gives the cell at (row, col) of w
ClaimStyle(w, row, col) ==
    IF w.table[<<row, col>>].format # None THEN w.table[<<row, col>>].format
    ELSE IF row \in DOMAIN w.set_rows /\ w.set_rows[row][2] # None
    THEN w.set_rows[row][2]
    ELSE IF col \in DOMAIN w.col_formats THEN w.col_formats[col]
    ELSE None

\* the <row> elements this step emits: the rows a streaming sheet flushes,
\* the sheet data a buffered sheet writes when it is closed
EmittedRows ==
    IF ws.optimization = 0 THEN ws'.sheet_data
    ELSE SubSeq(ws'.row_data, Len(ws.row_data) + 1, Len(ws'.row_data))

\* C8: every cell emitted has the style of its own format, else of the format
\* of the override of its row, else of the format of its column, else none.
C8_StylePrecedence ==
    [][\A i \in 1 .. Len(EmittedRows) :
          \A j \in 1 .. Len(EmittedRows[i].cells) :
              LET e == EmittedRows[i].cells[j]
              IN e.s = ClaimStyle(ws, e.row, e.col)]_vars

\* a closed buffered sheet has emitted a cell without a format of its own, in
\* a row with a format and a column with a format, with the style of the row
C8_Witness ==
    /\ closed /\ ws.optimization = 0
    /\ \E i \in 1 .. Len(ws.sheet_data) :
          \E j \in 1 .. Len(ws.sheet_data[i].cells) :
              LET e == ws.sheet_data[i].cells[j]
              IN /\ ws.table[<<e.row, e.col>>].format = None
                 /\ e.row \in DOMAIN ws.set_rows
                 /\ ws.set_rows[e.row][2] = 2
                 /\ e.col \in DOMAIN ws.col_formats
                 /\ e.s = 2

\* C9: in buffered mode merge_range over an in-bounds range of more than one
\* cell records exactly one region, stores the payload at the top-left cell
\* and leaves every other cell of the range a Blank cell with the merge
\* format; over a single cell it changes nothing.
C9_MergeRange ==
    [][(/\ Called
        /\ last'.op = "merge_range"
        /\ ws.optimization = 0
        /\ RangeInBounds(last'))
          => IF last'.row = last'.last_row /\ last'.col = last'.last_col
             THEN ws' = ws
             ELSE LET first_row == AnchorRow(last')
                      first_col == AnchorCol(last')
                      last_row == IF last'.row > last'.last_row THEN last'.row
                                  ELSE last'.last_row
                      last_col == IF last'.col > last'.last_col THEN last'.col
                                  ELSE last'.last_col
                  IN /\ ws'.merge = Append(ws.merge, <<first_row, first_col,
                                                       last_row, last_col>>)
                     /\ <<first_row, first_col>> \in DOMAIN ws'.table
                     /\ ws'.table[<<first_row, first_col>>].type = "String"
                     /\ CellText(ws', ws'.table[<<first_row, first_col>>])
                          = last'.arg.s
                     /\ \A row \in first_row .. last_row :
                          \A col \in first_col .. last_col :
                            <<row, col>> # <<first_row, first_col>> =>
                              /\ <<row, col>> \in DOMAIN ws'.table
                              /\ ws'.table[<<row, col>>]
                                   = cell_blank_tuple(last'.cell_format)]_vars

StringWrites == {"write_string", "write_url", "write_rich_string"}

\* the length of the text a call hands over: the string of write_string, the
\* display text of write_url, the text fragments of write_rich_string
RECURSIVE RichLen(_)
RichLen(args) ==
    IF Len(args) = 0 THEN 0
    ELSE (IF Head(args).ty = "str" THEN Len(Head(args).s) ELSE 0)
         + RichLen(Tail(args))

PayloadLen(c) ==
    CASE c.op = "write_string" -> Len(c.arg.s)
      [] c.op = "write_url" ->
           IF c.arg.string = NoStr THEN Len(c.arg.s) ELSE Len(c.arg.string)
      [] c.op = "write_rich_string" -> RichLen(c.arg.args)

\* C10: an accepted write of a text longer than xls_strmax returns -2 and
\* leaves a String cell at the target (for write_string: holding the first
\* xls_strmax characters); write_string of a shorter text returns 0 and stores
\* the text as it is.
C10_LongStringTruncated ==
    [][(/\ Called
        /\ last'.op \in StringWrites
        /\ ~OutOfBounds(last')
        /\ (ws.optimization = 1 => last'.row >= ws.previous_row))
          => IF PayloadLen(last') > xls_strmax
             THEN /\ last'.ret = -2
                  /\ Anchor(last') \in DOMAIN ws'.table
                  /\ ws'.table[Anchor(last')].type = "String"
                  /\ (last'.op = "write_string" =>
                        CellText(ws', ws'.table[Anchor(last')])
                          = SubSeq(last'.arg.s, 1, xls_strmax))
             ELSE last'.op = "write_string" =>
                    /\ last'.ret = 0
                    /\ Anchor(last') \in DOMAIN ws'.table
                    /\ ws'.table[Anchor(last')].type = "String"
                    /\ CellText(ws', ws'.table[Anchor(last')]) = last'.arg.s]_vars

(***************************************************************************)
(* SpecArray: array formulas over ranges of a few cells that may already   *)
(* hold numbers; both modes.                                               *)
(***************************************************************************)
\* the number of calls of one run of SpecArray
ArrayOps == 2

ArrayRows == {0, 1}
ArrayCols == {0, 1}

InitArray ==
    /\ ws \in {Worksheet(0), Worksheet(1)}
    /\ twin = Worksheet(0)
    /\ last = NoCall
    /\ left = ArrayOps
    /\ closed = FALSE

NextArray ==
    \/ WriteArrayFormula(ArrayRows, ArrayCols, CellFormats)
    \/ WriteNumber(ArrayRows, ArrayCols, {None})

SpecArray == InitArray /\ [][NextArray]_vars

\* the bottom-right cell of the range of a call
LastRow(c) == IF c.row > c.last_row THEN c.row ELSE c.last_row
LastCol(c) == IF c.col > c.last_col THEN c.col ELSE c.last_col

\* the cells of the range of a call
RangeOf(c) == (AnchorRow(c) .. LastRow(c)) \X (AnchorCol(c) .. LastCol(c))

\* C11: an accepted write_array_formula stores the ArrayFormula cell (text
\* without braces and '=', the format, the range) at the top-left cell of the
\* range; in buffered mode every other cell of the range becomes a Number 0
\* with the same format and the cells outside the range stay; in streaming
\* mode no cell but the anchor is stored.
C11_ArrayFormulaBackFill ==
    [][(Called /\ last'.op = "write_array_formula" /\ last'.ret = 0) =>
          /\ Anchor(last') \in DOMAIN ws'.table
          /\ ws'.table[Anchor(last')]
               = cell_arformula_tuple(<<"1">>, last'.cell_format, 0,
                                      cell_range_of(AnchorRow(last'), AnchorCol(last'),
                                                    LastRow(last'), LastCol(last')))
          /\ \A k \in DOMAIN ws'.table \ {Anchor(last')} :
                \/ /\ ws.optimization = 0
                   /\ k \in RangeOf(last')
                   /\ ws'.table[k] = cell_number_tuple(0, last'.cell_format)
                \/ /\ k \notin RangeOf(last') \/ ws.optimization = 1
                   /\ k \in DOMAIN ws.table
                   /\ ws'.table[k] = ws.table[k]
          /\ ws.optimization = 0 => RangeOf(last') \subseteq DOMAIN ws'.table]_vars

\* a buffered sheet after an array formula over a range of four cells that
\* held a number: the anchor holds the formula, the opposite corner a zero
C11_Witness ==
    /\ ws.optimization = 0
    /\ last.op = "write_array_formula" /\ last.ret = 0 /\ left = 0
    /\ Cardinality(RangeOf(last)) = 4
    /\ ws.table[<<0, 0>>].type = "ArrayFormula"
    /\ ws.table[<<1, 1>>] = cell_number_tuple(0, last.cell_format)

(***************************************************************************)
(* SpecDate: _convert_date_time on whole-day dates, under either epoch.    *)
(***************************************************************************)
\* the number of days after each epoch that the dates of SpecDate span
DateSpan == 70

\* the Worksheet object after _initialize with init_data['date_1904']
Worksheet1904 == [Worksheet(0) EXCEPT !.date_1904 = TRUE]

Dates ==
    {TokDate(Epoch1900 + d) : d \in 0 .. DateSpan}
    \cup {TokDate(Epoch1904 + d) : d \in 0 .. DateSpan}

ConvertDateTime ==
    \E dt_obj \in Dates :
        /\ ~closed /\ left > 0
        /\ \E r \in {[w |-> ws, ret |-> _convert_date_time(ws, dt_obj)]} :
              Return(Call("_convert_date_time", None, None, None, None, None,
                          dt_obj), r)

InitDate ==
    /\ ws \in {Worksheet(0), Worksheet1904}
    /\ twin = Worksheet(0)
    /\ last = NoCall
    /\ left = 1
    /\ closed = FALSE

NextDate == ConvertDateTime

SpecDate == InitDate /\ [][NextDate]_vars

\* the whole days from the epoch of w to the date dt_obj
DaysSinceEpoch(w, dt_obj) ==
    dt_obj.ord - (IF w.date_1904 THEN Epoch1904 ELSE Epoch1900)

\* C12: for a date on or after the epoch, _convert_date_time gives the days
\* since the epoch; under the default epoch one day more from 1900-03-01 (the
\* 60th day) on; under the 1904 epoch never a day more.
C12_DateSerial ==
    (last.op = "_convert_date_time" /\ DaysSinceEpoch(ws, last.arg) >= 0) =>
        last.ret =
            IF ~ws.date_1904 /\ DaysSinceEpoch(ws, last.arg) >= 60
            THEN (DaysSinceEpoch(ws, last.arg) + 1) * DaySecs
            ELSE DaysSinceEpoch(ws, last.arg) * DaySecs


(***************************************************************************)
(* The autofilter criteria parser (worksheet.py:3038-3179).  A list that   *)
(* the parser returns is [raised |-> FALSE, val |-> the list]; an          *)
(* exception that leaves it is [raised |-> TRUE, val |-> <<>>].            *)
(***************************************************************************)
UpperCase == <<"A", "B", "C", "D", "E", "F", "G", "H", "I", "J", "K", "L", "M", "N", "O", "P", "Q", "R", "S", "T", "U", "V", "W", "X", "Y", "Z">>
LowerCase == <<"a", "b", "c", "d", "e", "f", "g", "h", "i", "j", "k", "l", "m", "n", "o", "p", "q", "r", "s", "t", "u", "v", "w", "x", "y", "z">>

\* s.lower()
lower(s) ==
    [i \in 1 .. Len(s) |->
        IF \E k \in 1 .. 26 : UpperCase[k] = s[i]
        THEN LowerCase[CHOOSE k \in 1 .. 26 : UpperCase[k] = s[i]]
        ELSE s[i]]

\* str(n) for n >= 0
RECURSIVE str(_)
str(n) == IF n < 10 THEN <<DigitChar(n)>> ELSE str(n \div 10) \o <<DigitChar(n % 10)>>

\* int(s): [ok |-> FALSE] stands for ValueError.  Over the alphabet of the
\* model a string is accepted exactly when it is a non-empty run of digits.
int(s) ==
    IF Len(s) > 0 /\ \A i \in 1 .. Len(s) : s[i] \in Digits
    THEN [ok |-> TRUE, val |-> DecimalVal(s)]
    ELSE [ok |-> FALSE, val |-> 0]

Quote == "\""

\* s[a..b] matches (?:[^"]|"")* : every quote of it is one of an adjacent pair
RECURSIVE QuotedBody(_, _, _)
QuotedBody(s, a, b) ==
    IF a > b THEN TRUE
    ELSE IF s[a] # Quote THEN QuotedBody(s, a + 1, b)
    ELSE a + 1 <= b /\ s[a + 1] = Quote /\ QuotedBody(s, a + 2, b)

\* the end of the match of "(?:[^"]|"")*" that starts at s[i], 0 when there
\* is none; the greedy star takes the longest match
QuotedEnd(s, i) ==
    LET ends == {j \in i + 1 .. Len(s) : s[j] = Quote /\ QuotedBody(s, i + 1, j - 1)}
    IN IF s[i] # Quote \/ ends = {} THEN 0
       ELSE CHOOSE j \in ends : \A k \in ends : k <= j

\* the end of the match of \S+ that starts at s[i]
RECURSIVE NonSpaceEnd(_, _)
NonSpaceEnd(s, i) ==
    IF i < Len(s) /\ s[i + 1] \notin Whitespace THEN NonSpaceEnd(s, i + 1) ELSE i

\* token_re.findall(s), scanning from s[i]
RECURSIVE findall(_, _)
findall(s, i) ==
    IF i > Len(s) THEN <<>>
    ELSE IF s[i] \in Whitespace THEN findall(s, i + 1)
    ELSE LET j == IF QuotedEnd(s, i) > 0 THEN QuotedEnd(s, i) ELSE NonSpaceEnd(s, i)
         IN <<SubSeq(s, i, j)>> \o findall(s, j + 1)

\* the body of the loop of _extract_filter_tokens
unquote(token) ==
    LET t1 == IF startswith(token, <<Quote>>) THEN Tail(token) ELSE token
        t2 == IF endswith(t1, <<Quote>>) THEN SubSeq(t1, 1, Len(t1) - 1) ELSE t1
    IN replace(t2, <<Quote, Quote>>, <<Quote>>)

_extract_filter_tokens(w, expression) ==
    IF Len(expression) = 0 THEN <<>>
    ELSE LET tokens == findall(expression, 1)
         IN [i \in 1 .. Len(tokens) |-> unquote(tokens[i])]

\* the operators dict of _parse_filter_tokens, None for a missing key
operators(key) ==
    CASE key \in {<<"=", "=">>, <<"=">>, <<"=", "~">>, <<"e", "q">>} -> 2
      [] key \in {<<"!", "=">>, <<"!", "~">>, <<"n", "e">>, <<"<", ">">>} -> 5
      [] key = <<"<">> -> 1
      [] key = <<"<", "=">> -> 3
      [] key = <<">">> -> 4
      [] key = <<">", "=">> -> 6
      [] OTHER -> None

Blanks == <<"b", "l", "a", "n", "k", "s">>
NonBlanks == <<"n", "o", "n">> \o Blanks
Top == <<"t", "o", "p">>
Bottom == <<"b", "o", "t", "t", "o", "m">>

\* tokens is a list of at least three tokens; a shorter one raises IndexError
_parse_filter_tokens(w, expression, tokens) ==
    IF Len(tokens) < 3 THEN [raised |-> TRUE, val |-> <<>>]
    ELSE
    LET is_top == startswith(lower(tokens[1]), Top) \/ startswith(lower(tokens[1]), Bottom)
        value == int(tokens[2])
        \* after the "Top" block
        operator1 == IF is_top
                     THEN (IF lower(tokens[1]) = Top THEN 30 ELSE 32)
                          + (IF tokens[3] = <<"%">> THEN 1 ELSE 0)
                     ELSE operators(tokens[2])
        token1 == IF is_top THEN str(value.val) ELSE tokens[3]
        is_blanks == startswith(lower(token1), Blanks) \/ startswith(lower(token1), NonBlanks)
        \* after the Blanks/NonBlanks block
        operator2 == IF ~is_blanks \/ lower(token1) = Blanks THEN operator1
                     ELSE IF operator1 = 5 THEN 2 ELSE 5
        token2 == IF ~is_blanks THEN token1
                  ELSE IF lower(token1) = Blanks
                       THEN (IF operator1 = 5 THEN <<" ">> ELSE lower(token1))
                  ELSE IF operator1 = 5 THEN Blanks ELSE <<" ">>
        operator3 == IF operator2 = 2 /\ (contains(token2, "*") \/ contains(token2, "?"))
                     THEN 22 ELSE operator2
    IN IF is_top /\ ~value.ok THEN [raised |-> TRUE, val |-> <<>>]
       ELSE [raised |-> FALSE, val |-> <<operator3, token2>>]

_parse_filter_expression(w, expression, tokens) ==
    IF Len(tokens) = 7
    THEN LET conditional == IF startswith(tokens[4], <<"a", "n", "d">>) \/ startswith(tokens[4], <<"&", "&">>) THEN 0
                            ELSE IF startswith(tokens[4], <<"o", "r">>) \/ startswith(tokens[4], <<"|", "|">>) THEN 1
                            ELSE tokens[4]
             expression_1 == _parse_filter_tokens(w, expression, SubSeq(tokens, 1, 3))
             expression_2 == _parse_filter_tokens(w, expression, SubSeq(tokens, 5, 7))
         IN IF expression_1.raised \/ expression_2.raised THEN [raised |-> TRUE, val |-> <<>>]
            ELSE [raised |-> FALSE, val |-> expression_1.val \o <<conditional>> \o expression_2.val]
    ELSE _parse_filter_tokens(w, expression, tokens)

(***************************************************************************)
(* SpecFilter: one criteria string goes through the tokenizer and the      *)
(* parser, as in filter_column (worksheet.py:1344-1349).                   *)
(***************************************************************************)
\* the words of a criteria string joined by single spaces
RECURSIVE Words(_)
Words(ws_) == IF Len(ws_) = 0 THEN <<>> ELSE IF Len(ws_) = 1 THEN ws_[1] ELSE ws_[1] \o <<" ">> \o Words(Tail(ws_))

FilterColumns == {<<"x">>, <<"t", "o", "p", "i", "c">>}
FilterOperators == {<<"=">>, <<"=", "=">>, <<"e", "q">>, <<"!", "=">>, <<"<", ">">>, <<"n", "e">>, <<"<">>, <<"<", "=">>, <<">">>, <<">", "=">>}
SecondOperators == {<<"<">>, <<"=", "=">>, <<"n", "e">>}
Glues == {<<"a", "n", "d">>, <<"o", "r">>}
V2000 == <<"2", "0", "0", "0">>
V5000 == <<"5", "0", "0", "0">>
PlainValues == {V2000, V5000}
\* "a b" and "a""b" in quotes, a wildcard, the blank keywords
SpecialValues == {<<Quote, "a", " ", "b", Quote>>, <<Quote, "a", Quote, Quote, "b", Quote>>, <<"a", "*">>, Blanks, <<"N", "o", "n", "B", "l", "a", "n", "k", "s">>}
RankWords == {Top, Bottom, <<"T", "o", "p">>}
RankCounts == {<<"1", "0">>, <<"5">>}
RankUnits == {<<"i", "t", "e", "m", "s">>, <<"%">>, <<"I", "t", "e", "m", "s">>}

Comparisons == {Words(<<x, op, v>>) : x \in FilterColumns, op \in FilterOperators, v \in PlainValues \cup SpecialValues}
Conjunctions == {Words(<<<<"x">>, op1, V2000, g, <<"x">>, op2, V5000>>) : op1 \in FilterOperators, g \in Glues, op2 \in SecondOperators}
Rankings == {Words(<<t, n, u>>) : t \in RankWords, n \in RankCounts, u \in RankUnits}

ParseFilterExpression ==
    \E criteria \in Comparisons \cup Conjunctions \cup Rankings :
        /\ ~closed /\ left > 0
        /\ \E r \in {_parse_filter_expression(ws, criteria, _extract_filter_tokens(ws, criteria))} :
              Return(Call("_parse_filter_expression", None, None, None, None, None, criteria),
                     [w |-> ws, ret |-> r])

InitFilter ==
    /\ ws = Worksheet(0)
    /\ twin = Worksheet(0)
    /\ last = NoCall
    /\ left = 1
    /\ closed = FALSE

NextFilter == ParseFilterExpression

SpecFilter == InitFilter /\ [][NextFilter]_vars

\* The claim's operator names, as the codes the autofilter writer uses.
ClaimCode(op) ==
    CASE op \in {<<"=">>, <<"=", "=">>, <<"e", "q">>} -> 2       \* equal
      [] op \in {<<"!", "=">>, <<"<", ">">>, <<"n", "e">>} -> 5   \* not-equal
      [] op = <<"<">> -> 1                                        \* less-than
      [] op = <<"<", "=">> -> 3                                   \* less-or-equal
      [] op = <<">">> -> 4                                        \* greater-than
      [] op = <<">", "=">> -> 6                                   \* greater-or-equal

ClaimGlue(g) == IF g = <<"a", "n", "d">> THEN 0 ELSE 1

\* top N items, top N %, bottom N items, bottom N %
ClaimRank(t, u) ==
    (IF lower(t) = Top THEN 30 ELSE 32) + (IF u = <<"%">> THEN 1 ELSE 0)

Parsed(criteria, list) ==
    last.arg = criteria => last.ret = [raised |-> FALSE, val |-> list]

\* C13: a comparison 'x OP v' (any placeholder x, a plain value v) parses to
\* [code(OP), v]; 'x OP1 v1 and|or x OP2 v2' parses to
\* [code(OP1), v1, glue, code(OP2), v2]; 'top|bottom N items|%' parses to one
\* of four distinct rank operators with N as text.
C13_FilterParse ==
    last.op = "_parse_filter_expression" =>
        /\ \A x \in FilterColumns, op \in FilterOperators, v \in PlainValues :
              Parsed(Words(<<x, op, v>>), <<ClaimCode(op), v>>)
        /\ \A op1 \in FilterOperators, g \in Glues, op2 \in SecondOperators :
              Parsed(Words(<<<<"x">>, op1, V2000, g, <<"x">>, op2, V5000>>),
                     <<ClaimCode(op1), V2000, ClaimGlue(g), ClaimCode(op2), V5000>>)
        /\ \A t \in RankWords, n \in RankCounts, u \in RankUnits :
              Parsed(Words(<<t, n, u>>), <<ClaimRank(t, lower(u)), n>>)


(***************************************************************************)
(* data_validation (worksheet.py:1407-1602).  The options dict is a        *)
(* function from its keys to their values.                                 *)
(***************************************************************************)
\* the exception of options['value'] when the key is absent
KeyError == -7

valid_parameters ==
    {"validate", "criteria", "value", "source", "minimum", "maximum",
     "ignore_blank", "dropdown", "show_input", "input_title", "input_message",
     "show_error", "error_title", "error_message", "error_type", "other_cells"}

valid_types ==
    [x \in {"any", "any value", "whole number", "whole", "integer", "decimal",
            "list", "date", "time", "text length", "length", "custom"} |->
        CASE x \in {"any", "any value"} -> "none"
          [] x \in {"whole number", "whole", "integer"} -> "whole"
          [] x \in {"text length", "length"} -> "textLength"
          [] OTHER -> x]

criteria_types ==
    [x \in {"between", "not between", "equal to", "=", "==", "not equal to",
            "!=", "<>", "greater than", ">", "less than", "<",
            "greater than or equal to", ">=", "less than or equal to", "<="} |->
        CASE x = "between" -> "between"
          [] x = "not between" -> "notBetween"
          [] x \in {"equal to", "=", "=="} -> "equal"
          [] x \in {"not equal to", "!=", "<>"} -> "notEqual"
          [] x \in {"greater than", ">"} -> "greaterThan"
          [] x \in {"less than", "<"} -> "lessThan"
          [] x \in {"greater than or equal to", ">="} -> "greaterThanOrEqual"
          [] x \in {"less than or equal to", "<="} -> "lessThanOrEqual"]

error_types == [x \in {"stop", "warning", "information"} |->
                    CASE x = "stop" -> 0 [] x = "warning" -> 1 [] x = "information" -> 2]

\* bool(v) of an option value, a payload token; TokNone is None
truth(v) ==
    IF v.ty = "num" THEN v.n # 0
    ELSE IF v.ty = "str" THEN Len(v.s) > 0
    ELSE v.ty # "None"

\* "%.15g" % x for a whole number of days x
format_15g(x) == TokStr(str(x \div DaySecs))

\* options.setdefault(k, v)
Default(d, k, v) == d @@ (k :> v)

data_validation(w, first_row, first_col, last_row, last_col, options) ==
    LET has(k) == k \in DOMAIN options
        o1 == IF has("source") THEN Put(options, "value", options["source"]) ELSE options
        o2 == IF has("minimum") THEN Put(o1, "value", options["minimum"]) ELSE o1
        validate == valid_types[options["validate"]]
        o3 == Put(o2, "validate", validate)
        o4 == IF validate \in {"list", "custom"}
              THEN Put(Put(o3, "criteria", "between"), "maximum", TokNone) ELSE o3
        criteria == criteria_types[o4["criteria"]]
        o5 == Put(o4, "criteria", criteria)
        o6 == IF criteria \in {"between", "notBetween"} THEN o5 ELSE Put(o5, "maximum", TokNone)
        o7 == IF "error_type" \notin DOMAIN o6 THEN Put(o6, "error_type", 0)
              ELSE Put(o6, "error_type", error_types[o6["error_type"]])
        is_date == validate \in {"date", "time"}
        o8 == IF is_date /\ truth(o7["value"])
              THEN Put(o7, "value", format_15g(_convert_date_time(w, o7["value"]))) ELSE o7
        o9 == IF is_date /\ truth(o8["maximum"])
              THEN Put(o8, "maximum", format_15g(_convert_date_time(w, o8["maximum"]))) ELSE o8
        o10 == Default(Default(Default(Default(o9, "ignore_blank", 1), "dropdown", 1),
                               "show_input", 1), "show_error", 1)
        cells == <<<<first_row, first_col, last_row, last_col>>>>
        o11 == Put(o10, "cells",
                   IF "other_cells" \in DOMAIN o10 THEN cells \o o10["other_cells"] ELSE cells)
    IN
    IF _check_dimensions(w, first_row, first_col, TRUE, TRUE).ret # 0 THEN [w |-> w, ret |-> -1]
    ELSE IF _check_dimensions(w, last_row, last_col, TRUE, TRUE).ret # 0 THEN [w |-> w, ret |-> -1]
    ELSE IF \E param_key \in DOMAIN options : param_key \notin valid_parameters THEN [w |-> w, ret |-> -2]
    ELSE IF ~has("validate") THEN [w |-> w, ret |-> -2]
    ELSE IF options["validate"] \notin DOMAIN valid_types THEN [w |-> w, ret |-> -2]
    ELSE IF validate = "none" THEN [w |-> w, ret |-> -2]
    ELSE IF "criteria" \notin DOMAIN o4 THEN [w |-> w, ret |-> -2]
    ELSE IF o4["criteria"] \notin DOMAIN criteria_types THEN [w |-> w, ret |-> -2]
    ELSE IF criteria \in {"between", "notBetween"} /\ "maximum" \notin DOMAIN o5 THEN [w |-> w, ret |-> -2]
    ELSE IF "error_type" \in DOMAIN o6 /\ o6["error_type"] \notin DOMAIN error_types THEN [w |-> w, ret |-> -2]
    ELSE IF is_date /\ "value" \notin DOMAIN o7 THEN [w |-> w, ret |-> KeyError]
    ELSE IF is_date /\ truth(o7["value"]) /\ ~_is_supported_datetime(o7["value"]) THEN [w |-> w, ret |-> -2]
    ELSE IF is_date /\ truth(o8["maximum"]) /\ ~_is_supported_datetime(o8["maximum"]) THEN [w |-> w, ret |-> -2]
    ELSE [w |-> [w EXCEPT !.validations = Append(@, o11)], ret |-> None]

(***************************************************************************)
(* SpecValidation: data_validation calls, with valid and invalid option    *)
(* maps, on a sheet that also receives cells.                              *)
(***************************************************************************)
ValidationOps == 2
ValidationRows == {0, xls_rowmax}
ValidationCols == {0}

\* the key k absent, or present with one of the values vs
Opt(k, vs) == {EmptyDict} \cup {k :> v : v \in vs}

ValidationOptions ==
    {a @@ b @@ c @@ d @@ e :
        a \in Opt("validate", {"any", "integer", "list", "date", "number"}),
        b \in Opt("criteria", {"between", ">", "within"}),
        c \in Opt("value", {SomeDate}),
        d \in Opt("maximum", {TokDate(693656)}),
        e \in Opt("error_type", {"warning", "fatal"}) \cup Opt("colour", {TokNum(1)})}

DataValidation(R, C, O) ==
    \E first_row \in R, first_col \in C, last_row \in R \ {xls_rowmax}, last_col \in C, options \in O :
        /\ ~closed /\ left > 0
        /\ \E r \in {data_validation(ws, first_row, first_col, last_row, last_col, options)} :
              Return(Call("data_validation", first_row, first_col, last_row, last_col, None, options), r)

InitValidation ==
    /\ ws \in {Worksheet(0), Worksheet(1)}
    /\ twin = Worksheet(0)
    /\ last = NoCall
    /\ left = ValidationOps
    /\ closed = FALSE

NextValidation ==
    \/ DataValidation(ValidationRows, ValidationCols, ValidationOptions)
    \/ WriteNumber({0}, {0}, {None})

SpecValidation == InitValidation /\ [][NextValidation]_vars

\* The option maps the claim rejects.
ClaimRejects(o) ==
    \/ \E k \in DOMAIN o : k \notin valid_parameters
    \/ "validate" \notin DOMAIN o
    \/ o["validate"] \notin DOMAIN valid_types
    \/ "criteria" \notin DOMAIN o /\ valid_types[o["validate"]] \notin {"list", "custom"}
    \/ "criteria" \in DOMAIN o /\ valid_types[o["validate"]] \notin {"list", "custom"}
          /\ o["criteria"] \notin DOMAIN criteria_types
    \/ "error_type" \in DOMAIN o /\ o["error_type"] \notin DOMAIN error_types
    \/ "criteria" \in DOMAIN o /\ o["criteria"] \in {"between", "not between"}
          /\ "maximum" \notin DOMAIN o /\ valid_types[o["validate"]] \notin {"list", "custom"}

SameCellsAndDimension ==
    /\ ws'.table = ws.table
    /\ ws'.dim_rowmin = ws.dim_rowmin /\ ws'.dim_rowmax = ws.dim_rowmax
    /\ ws'.dim_colmin = ws.dim_colmin /\ ws'.dim_colmax = ws.dim_colmax

\* C14: an in-range data_validation call appends exactly one rule when its
\* option map is valid, and appends nothing and returns -2 when the map has
\* an unknown key, lacks 'validate', lacks a needed 'criteria', names an
\* unknown validate/criteria/error_type value or uses between/not between
\* without 'maximum'; the cell store and the dimension never change.
C14_DataValidation ==
    [][(Called /\ last'.op = "data_validation" /\ ~OutOfBounds(last')
            /\ last'.last_row < xls_rowmax /\ last'.last_col < xls_colmax) =>
        /\ SameCellsAndDimension
        /\ IF ClaimRejects(last'.arg)
           THEN ws'.validations = ws.validations /\ last'.ret = -2
           ELSE Len(ws'.validations) = Len(ws.validations) + 1
                /\ SubSeq(ws'.validations, 1, Len(ws.validations)) = ws.validations]_vars


(***************************************************************************)
(* conditional_format (worksheet.py:1604-1950).  The options dict is a     *)
(* function from its keys to their values; a synthesized formula is the    *)
(* format string with the arguments of its % operator.                     *)
(***************************************************************************)
valid_parameter ==
    {"type", "format", "criteria", "value", "minimum", "maximum", "min_type",
     "mid_type", "max_type", "min_value", "mid_value", "max_value", "min_color",
     "mid_color", "max_color", "multi_range", "bar_color"}

valid_type ==
    [x \in {"cell", "date", "time", "average", "duplicate", "unique", "top",
            "bottom", "text", "time_period", "blanks", "no_blanks", "errors",
            "no_errors", "2_color_scale", "3_color_scale", "data_bar", "formula"} |->
        CASE x = "cell" -> "cellIs"
          [] x = "average" -> "aboveAverage"
          [] x = "duplicate" -> "duplicateValues"
          [] x = "unique" -> "uniqueValues"
          [] x \in {"top", "bottom"} -> "top10"
          [] x = "time_period" -> "timePeriod"
          [] x = "blanks" -> "containsBlanks"
          [] x = "no_blanks" -> "notContainsBlanks"
          [] x = "errors" -> "containsErrors"
          [] x = "no_errors" -> "notContainsErrors"
          [] x = "data_bar" -> "dataBar"
          [] x = "formula" -> "expression"
          [] OTHER -> x]

criteria_type ==
    [x \in DOMAIN criteria_types \cup
           {"containing", "not containing", "begins with", "ends with",
            "yesterday", "today", "last 7 days", "last week", "this week",
            "continue week", "last month", "this month", "continue month"} |->
        CASE x \in DOMAIN criteria_types -> criteria_types[x]
          [] x = "containing" -> "containsText"
          [] x = "not containing" -> "notContains"
          [] x = "begins with" -> "beginsWith"
          [] x = "ends with" -> "endsWith"
          [] x = "last 7 days" -> "last7Days"
          [] x = "last week" -> "lastWeek"
          [] x = "this week" -> "thisWeek"
          [] x = "continue week" -> "continueWeek"
          [] x = "last month" -> "lastMonth"
          [] x = "this month" -> "thisMonth"
          [] x = "continue month" -> "continueMonth"
          [] OTHER -> x]

\* A format string is the sequence of its pieces of text and its conversion
\* specifiers; template % args is the sequence of pieces with each specifier
\* replaced by the next argument.
Literal(text) == [kind |-> "text", text |-> text]

RECURSIVE Subst(_, _)
Subst(template, args) ==
    IF template = <<>> THEN <<>>
    ELSE IF Head(template) \in {"%s", "%d"}
    THEN <<Head(args)>> \o Subst(Tail(template), Tail(args))
    ELSE <<Literal(Head(template))>> \o Subst(Tail(template), args)

\* utility.xl_rowcol_to_cell(row, col): the A1-style name of the cell, kept as
\* the coordinates it names
xl_rowcol_to_cell(row, col) == [kind |-> "cell", row |-> row, col |-> col]

\* the arguments of a format string that are an option value and a length
FormatValue(value) == [kind |-> "value", value |-> value]
FormatInt(n) == [kind |-> "int", n |-> n]

\* format._get_dxf_index(): the style registry gives every Format a stable
\* index; the model names a Format by that index.
_get_dxf_index(format) == format

\* xl_color(color) for the default colours of the colour scales and bars and
\* for a named colour
xl_color(color) ==
    CASE color = "#FF7128" -> "FFFF7128" [] color = "#FFEF9C" -> "FFFFEF9C"
      [] color = "#F8696B" -> "FFF8696B" [] color = "#FFEB84" -> "FFFFEB84"
      [] color = "#63BE7B" -> "FF63BE7B" [] color = "#638EC6" -> "FF638EC6"
      [] color = "red" -> "FFFF0000"

\* the text rules: criteria -> <<type, formula>>
text_formula(criteria, start_cell, value) ==
    CASE criteria = "containsText" ->
            <<"containsText", Subst(<<"NOT(ISERROR(SEARCH(\"", "%s", "\",", "%s", ")))">>,
                                    <<FormatValue(value), start_cell>>)>>
      [] criteria = "notContains" ->
            <<"notContainsText", Subst(<<"ISERROR(SEARCH(\"", "%s", "\",", "%s", "))">>,
                                       <<FormatValue(value), start_cell>>)>>
      [] criteria = "beginsWith" ->
            <<"beginsWith", Subst(<<"LEFT(", "%s", ",", "%d", ")=\"", "%s", "\"">>,
                                  <<start_cell, FormatInt(Len(value.s)), FormatValue(value)>>)>>
      [] criteria = "endsWith" ->
            <<"endsWith", Subst(<<"RIGHT(", "%s", ",", "%d", ")=\"", "%s", "\"">>,
                                <<start_cell, FormatInt(Len(value.s)), FormatValue(value)>>)>>

\* the time_period rules: criteria -> formula, <<>> when there is none
time_period_formula(criteria, start_cell) ==
    CASE criteria = "yesterday" ->
            Subst(<<"FLOOR(", "%s", ",1)=TODAY()-1">>, <<start_cell>>)
      [] criteria = "today" ->
            Subst(<<"FLOOR(", "%s", ",1)=TODAY()">>, <<start_cell>>)
      [] criteria = "tomorrow" ->
            Subst(<<"FLOOR(", "%s", ",1)=TODAY()+1">>, <<start_cell>>)
      [] criteria = "last7Days" ->
            Subst(<<"AND(TODAY()-FLOOR(", "%s", ",1)<=6,FLOOR(", "%s", ",1)<=TODAY())">>,
                  <<start_cell, start_cell>>)
      [] criteria = "lastWeek" ->
            Subst(<<"AND(TODAY()-ROUNDDOWN(", "%s", ",0)>=(WEEKDAY(TODAY())),TODAY()-ROUNDDOWN(",
                    "%s", ",0)<(WEEKDAY(TODAY())+7))">>,
                  <<start_cell, start_cell>>)
      [] criteria = "thisWeek" ->
            Subst(<<"AND(TODAY()-ROUNDDOWN(", "%s", ",0)<=WEEKDAY(TODAY())-1,ROUNDDOWN(",
                    "%s", ",0)-TODAY()<=7-WEEKDAY(TODAY()))">>,
                  <<start_cell, start_cell>>)
      [] criteria = "continueWeek" ->
            Subst(<<"AND(ROUNDDOWN(", "%s", ",0)-TODAY()>(7-WEEKDAY(TODAY())),ROUNDDOWN(",
                    "%s", ",0)-TODAY()<(15-WEEKDAY(TODAY())))">>,
                  <<start_cell, start_cell>>)
      [] criteria = "lastMonth" ->
            Subst(<<"AND(MONTH(", "%s", ")=MONTH(TODAY())-1,OR(YEAR(", "%s",
                    ")=YEAR(TODAY()),AND(MONTH(", "%s", ")=1,YEAR(", "A1",
                    ")=YEAR(TODAY())-1)))">>,
                  <<start_cell, start_cell, start_cell>>)
      [] criteria = "thisMonth" ->
            Subst(<<"AND(MONTH(", "%s", ")=MONTH(TODAY()),YEAR(", "%s", ")=YEAR(TODAY()))">>,
                  <<start_cell, start_cell>>)
      [] criteria = "continueMonth" ->
            Subst(<<"AND(MONTH(", "%s", ")=MONTH(TODAY())+1,OR(YEAR(", "%s",
                    ")=YEAR(TODAY()),AND(MONTH(", "%s", ")=12,YEAR(", "%s",
                    ")=YEAR(TODAY())+1)))">>,
                  <<start_cell, start_cell, start_cell, start_cell>>)
      [] OTHER -> <<>>

\* the formulas of the blanks/errors types, <<>> for the other types
blank_error_formula(type, start_cell) ==
    CASE type = "containsBlanks" -> Subst(<<"LEN(TRIM(", "%s", "))=0">>, <<start_cell>>)
      [] type = "notContainsBlanks" -> Subst(<<"LEN(TRIM(", "%s", "))>0">>, <<start_cell>>)
      [] type = "containsErrors" -> Subst(<<"ISERROR(", "%s", ")">>, <<start_cell>>)
      [] type = "notContainsErrors" -> Subst(<<"NOT(ISERROR(", "%s", "))">>, <<start_cell>>)
      [] OTHER -> <<>>

\* the defaults of the colour scales and of the data bar
scale_defaults(o, type) ==
    LET two == Default(Default(Put(Put(o, "mid_type", TokNone), "mid_color", TokNone),
                               "min_color", "#FF7128"), "max_color", "#FFEF9C")
        three == Default(Default(Default(Default(Default(o, "mid_type", "percentile"),
                     "min_color", "#F8696B"), "mid_color", "#FFEB84"), "max_color", "#63BE7B"),
                     "mid_value", 50)
        base == IF type = "2_color_scale" THEN two ELSE IF type = "3_color_scale" THEN three ELSE o
        o1 == Default(Default(Default(Default(Put(base, "format", None),
                  "min_type", "min"), "max_type", "max"), "min_value", 0), "max_value", 0)
        o2 == IF type = "dataBar"
              THEN LET b == Default(o1, "bar_color", "#638EC6") IN Put(b, "bar_color", xl_color(b["bar_color"]))
              ELSE Put(Put(Put(o1, "type", "colorScale"),
                           "min_color", xl_color(o1["min_color"])),
                           "max_color", xl_color(o1["max_color"]))
    IN IF type = "3_color_scale" THEN Put(o2, "mid_color", xl_color(o2["mid_color"])) ELSE o2

conditional_format(w, first_row, first_col, last_row, last_col, options) ==
    LET has(k) == k \in DOMAIN options
        type1 == valid_type[options["type"]]
        is_date == type1 \in {"date", "time"}
        type2 == IF is_date THEN "cellIs" ELSE type1
        \* options['criteria'] after the replacement of the criteria
        criteria == IF options["criteria"] \in DOMAIN criteria_type
                    THEN criteria_type[options["criteria"]] ELSE options["criteria"]
        row1 == Min2(first_row, last_row)
        row2 == IF first_row > last_row THEN first_row ELSE last_row
        col1 == Min2(first_col, last_col)
        col2 == IF first_col > last_col THEN first_col ELSE last_col
        start_cell == xl_rowcol_to_cell(row1, col1)
        cell_range == IF has("multi_range") THEN replace(options["multi_range"], <<"$">>, <<>>)
                      ELSE cell_range_of(row1, col1, row2, col2)
        w1 == [w EXCEPT !.dxf_priority = @ + 1]
        is_text_rule == type2 = "text" /\ criteria \in {"containsText", "notContains", "beginsWith", "endsWith"}
        \* the steps that rewrite the options, in the order of the code
        Direction(o) == IF options["type"] = "bottom" THEN Put(o, "direction", "bottom") ELSE o
        Type(o) == Put(o, "type", type1)
        Criteria(o) == IF has("criteria") THEN Put(o, "criteria", criteria) ELSE o
        Bad(k) == is_date /\ has(k) /\ ~_is_supported_datetime(options[k])
        Conv(o, k) == IF is_date /\ has(k)
                      THEN Put(o, k, format_15g(_convert_date_time(w, o[k]))) ELSE o
        ConvDates(o) == Conv(Conv(Conv(Put(o, "type", type2), "value"), "minimum"), "maximum")
        Format(o) == IF has("format") /\ options["format"] # None
                     THEN Put(o, "format", _get_dxf_index(options["format"])) ELSE o
        Priority(o) == Put(o, "priority", w.dxf_priority)
        Text(o) == IF is_text_rule
                   THEN LET tf == text_formula(criteria, start_cell, o["value"])
                        IN Put(Put(o, "type", tf[1]), "formula", tf[2])
                   ELSE o
        TimePeriod(o) == IF type2 = "timePeriod" /\ time_period_formula(criteria, start_cell) # <<>>
                         THEN Put(o, "formula", time_period_formula(criteria, start_cell))
                         ELSE o
        BlankError(o) == IF blank_error_formula(type2, start_cell) # <<>>
                         THEN Put(o, "formula", blank_error_formula(type2, start_cell))
                         ELSE o
        Scale(o) == IF type2 \in {"2_color_scale", "3_color_scale", "dataBar"}
                    THEN scale_defaults(o, type2) ELSE o
        rule == Scale(BlankError(TimePeriod(Text(Priority(Format(ConvDates(Criteria(Type(Direction(options))))))))))
        stored == Put(w1.cond_formats, cell_range,
                      IF cell_range \in DOMAIN w1.cond_formats
                      THEN Append(w1.cond_formats[cell_range], rule) ELSE <<rule>>)
    IN
    IF _check_dimensions(w, first_row, first_col, TRUE, TRUE).ret # 0 THEN [w |-> w, ret |-> -1]
    ELSE IF _check_dimensions(w, last_row, last_col, TRUE, TRUE).ret # 0 THEN [w |-> w, ret |-> -1]
    ELSE IF \E param_key \in DOMAIN options : param_key \notin valid_parameter THEN [w |-> w, ret |-> -2]
    ELSE IF ~has("type") THEN [w |-> w, ret |-> -2]
    ELSE IF options["type"] \notin DOMAIN valid_type THEN [w |-> w, ret |-> -2]
    ELSE IF Bad("value") \/ Bad("minimum") \/ Bad("maximum") THEN [w |-> w, ret |-> -2]
    \* options['criteria'] and options['value'] are read after the priority is taken
    ELSE IF type2 \in {"text", "timePeriod"} /\ ~has("criteria") THEN [w |-> w1, ret |-> KeyError]
    ELSE IF is_text_rule /\ ~has("value") THEN [w |-> w1, ret |-> KeyError]
    ELSE [w |-> [w1 EXCEPT !.cond_formats = stored], ret |-> None]

(***************************************************************************)
(* SpecCond: conditional_format calls, accepted and rejected.              *)
(***************************************************************************)
CondOps == 3
CondRows == {0, xls_rowmax}
CondCols == {0}

CondOptions ==
    {a @@ b @@ c :
        a \in Opt("type", {"cell", "text", "blanks", "data_bar", "colour"}),
        b \in Opt("criteria", {"containing"}),
        c \in Opt("value", {TokStr(ShortText)}) \cup Opt("colour", {TokNum(1)})}

ConditionalFormat(R, C, O) ==
    \E first_row \in R, first_col \in C, last_row \in R \ {xls_rowmax}, last_col \in C, options \in O :
        /\ ~closed /\ left > 0
        /\ \E r \in {conditional_format(ws, first_row, first_col, last_row, last_col, options)} :
              Return(Call("conditional_format", first_row, first_col, last_row, last_col, None, options), r)

InitCond ==
    /\ ws \in {Worksheet(0), Worksheet(1)}
    /\ twin = Worksheet(0)
    /\ last = NoCall
    /\ left = CondOps
    /\ closed = FALSE

NextCond == ConditionalFormat(CondRows, CondCols, CondOptions)

SpecCond == InitCond /\ [][NextCond]_vars

\* a recorded rule is <<range, position in the list of the range>>
PriorityOf(w, rule) == w.cond_formats[rule[1]][rule[2]]["priority"]

\* C15: the priorities of the recorded rules are exactly 1..N, each once, in
\* the order of registration, whatever calls were rejected in between.
C15_PrioritiesDense ==
    LET rules == UNION {{<<k, i>> : i \in 1 .. Len(ws.cond_formats[k])} : k \in DOMAIN ws.cond_formats}
        N == Cardinality(rules)
    IN /\ \A p \in 1 .. N : \E rule \in rules : PriorityOf(ws, rule) = p
       /\ \A rule \in rules : PriorityOf(ws, rule) \in 1 .. N
       /\ \A k \in DOMAIN ws.cond_formats : \A i, j \in 1 .. Len(ws.cond_formats[k]) :
             i < j => PriorityOf(ws, <<k, i>>) < PriorityOf(ws, <<k, j>>)


(***************************************************************************)
(* The geometry engine: _size_col, _size_row, _position_object_pixels      *)
(* (worksheet.py:3306-3436) and set_default_row (worksheet.py:1207-1225).  *)
(***************************************************************************)
\* int(x) of the float n/d, d > 0: truncation towards zero
int_div(n, d) == IF n >= 0 THEN n \div d ELSE -((-n) \div d)

\* [ok |-> FALSE] stands for the TypeError of `None < 1`: set_column stores
\* its width argument as it is, and the argument defaults to None
_size_col(w, col) ==
    IF col \in DOMAIN w.col_sizes
    THEN LET width == w.col_sizes[col]
         IN IF width = None THEN [ok |-> FALSE, pixels |-> 0]
            ELSE IF width = 0 THEN [ok |-> TRUE, pixels |-> 0]
            ELSE IF width < 1 THEN [ok |-> TRUE, pixels |-> int_div(width * 24 + 1, 2)]
            ELSE [ok |-> TRUE, pixels |-> width * 7 + 5]
    ELSE [ok |-> TRUE, pixels |-> 64]

_size_row(w, row) ==
    IF row \in DOMAIN w.row_sizes
    THEN LET height == w.row_sizes[row]
         IN IF height = 0 THEN 0 ELSE int_div(4 * height, 3)
    ELSE int_div(4 * w.default_row_height, 3)

set_default_row(w, height, hide_unused_rows) ==
    LET w1 == IF height # 15
              THEN [w EXCEPT !.row_size_changed = 1, !.default_row_height = height]
              ELSE w
    IN [w |-> IF hide_unused_rows THEN [w1 EXCEPT !.default_row_zeroed = 1] ELSE w1,
        ret |-> None]

\* while x >= self._size_col(col): x -= self._size_col(col); col += 1
\* The loop ends by "return" (its condition is false), by "TypeError", or
\* not at all ("loop"): past the last column that has a size every column
\* has the same size, and if that size is not positive the condition stays
\* true.
RECURSIVE WalkCols(_, _, _)
WalkCols(w, col, x) ==
    LET s == _size_col(w, col)
    IN IF ~s.ok THEN [end |-> "TypeError", at |-> col, rest |-> x]
       ELSE IF x < s.pixels THEN [end |-> "return", at |-> col, rest |-> x]
       ELSE IF s.pixels <= 0 /\ \A k \in DOMAIN w.col_sizes : k < col
       THEN [end |-> "loop", at |-> col, rest |-> x]
       ELSE WalkCols(w, col + 1, x - s.pixels)

\* while y >= self._size_row(row): y -= self._size_row(row); row += 1
RECURSIVE WalkRows(_, _, _)
WalkRows(w, row, y) ==
    LET s == _size_row(w, row)
    IN IF y < s THEN [end |-> "return", at |-> row, rest |-> y]
       ELSE IF s <= 0 /\ \A k \in DOMAIN w.row_sizes : k < row
       THEN [end |-> "loop", at |-> row, rest |-> y]
       ELSE WalkRows(w, row + 1, y - s)

\* for col_id in range(1, col_start + 1): x_abs += self._size_col(col_id)
RECURSIVE AbsCols(_, _)
AbsCols(w, col_start) ==
    IF col_start < 1 THEN [ok |-> TRUE, pixels |-> 0]
    ELSE LET rest == AbsCols(w, col_start - 1)
             s == _size_col(w, col_start)
         IN [ok |-> rest.ok /\ s.ok, pixels |-> rest.pixels + s.pixels]

RECURSIVE AbsRows(_, _)
AbsRows(w, row_start) ==
    IF row_start < 1 THEN 0 ELSE AbsRows(w, row_start - 1) + _size_row(w, row_start)

\* [end |-> "return", val |-> the list returned], or the way the call ends
\* otherwise
_position_object_pixels(w, col_start, row_start, x1, y1, width, height) ==
    LET abs_cols == IF w.col_size_changed # 0 THEN AbsCols(w, col_start)
                    ELSE [ok |-> TRUE, pixels |-> 64 * col_start]
        x_abs == abs_cols.pixels + x1
        y_abs == (IF w.row_size_changed # 0 THEN AbsRows(w, row_start) ELSE 20 * row_start) + y1
        c1 == WalkCols(w, col_start, x1)
        r1 == WalkRows(w, row_start, y1)
        c2 == WalkCols(w, c1.at, width + c1.rest)
        r2 == WalkRows(w, r1.at, height + r1.rest)
    IN IF ~abs_cols.ok THEN [end |-> "TypeError", val |-> <<>>]
       ELSE IF c1.end # "return" THEN [end |-> c1.end, val |-> <<>>]
       ELSE IF r1.end # "return" THEN [end |-> r1.end, val |-> <<>>]
       ELSE IF c2.end # "return" THEN [end |-> c2.end, val |-> <<>>]
       ELSE IF r2.end # "return" THEN [end |-> r2.end, val |-> <<>>]
       ELSE [end |-> "return",
             val |-> <<c1.at, r1.at, c1.rest, r1.rest, c2.at, r2.at, c2.rest, r2.rest,
                       x_abs, y_abs>>]

(***************************************************************************)
(* SpecAnchor: column widths, row heights and the default row height are   *)
(* set, then an object is positioned.                                      *)
(***************************************************************************)
AnchorOps == 3
AnchorCells == {0, 1}
AnchorWidths == {None, 2}
AnchorHeights == {None, 30}
DefaultHeights == {15, 30, 0}
AnchorOffsets == {0, 70}
ObjectWidths == {64, 100}
ObjectHeights == {20, 50}

SetDefaultRow(H) ==
    \E height \in H :
        /\ ~closed /\ left > 0
        /\ \E r \in {set_default_row(ws, height, FALSE)} :
              Return(Call("set_default_row", None, None, None, None, None, TokNum(height)), r)

PositionObjectPixels ==
    \E col_start \in AnchorCells, row_start \in AnchorCells, x1 \in AnchorOffsets,
       y1 \in AnchorOffsets, width \in ObjectWidths, height \in ObjectHeights :
        /\ ~closed /\ left > 0
        /\ \E r \in {_position_object_pixels(ws, col_start, row_start, x1, y1, width, height)} :
              Return(Call("_position_object_pixels", row_start, col_start, None, None, None,
                          <<col_start, row_start, x1, y1, width, height>>),
                     [w |-> ws, ret |-> r])

InitAnchor ==
    /\ ws = Worksheet(0)
    /\ twin = Worksheet(0)
    /\ last = NoCall
    /\ left = AnchorOps
    /\ closed = FALSE

NextAnchor ==
    \/ SetColumn(AnchorCells, {None}, AnchorWidths, {FALSE, TRUE})
    \/ SetRow(AnchorCells, {None}, AnchorHeights, {0})
    \/ SetDefaultRow(DefaultHeights)
    \/ PositionObjectPixels

SpecAnchor == InitAnchor /\ [][NextAnchor]_vars

\* the pixel widths of the columns a .. b - 1, the pixel heights of the rows
RECURSIVE SumCols(_, _, _)
SumCols(w, a, b) == IF a >= b THEN 0 ELSE _size_col(w, a).pixels + SumCols(w, a + 1, b)
RECURSIVE SumRows(_, _, _)
SumRows(w, a, b) == IF a >= b THEN 0 ELSE _size_row(w, a) + SumRows(w, a + 1, b)

\* C16: _position_object_pixels returns; with (col_start, x1) the start
\* after normalisation, 0 <= x2 < the pixel width of col_end and the widths
\* of col_start .. col_end - 1 plus x2 equal x1 + width, and likewise for
\* rows; on a sheet with default sizes the 64 x 20 object at (0, 0, 0, 0)
\* ends at column 1, row 1 with zero offsets.
C16_EndAnchor ==
    last.op = "_position_object_pixels" =>
        /\ last.ret.end = "return"
        /\ LET v == last.ret.val
               col_start == v[1]  row_start == v[2]  x1 == v[3]  y1 == v[4]
               col_end == v[5]    row_end == v[6]    x2 == v[7]  y2 == v[8]
           IN /\ 0 <= x2 /\ x2 < _size_col(ws, col_end).pixels
              /\ 0 <= y2 /\ y2 < _size_row(ws, row_end)
              /\ SumCols(ws, col_start, col_end) + x2 = x1 + last.arg[5]
              /\ SumRows(ws, row_start, row_end) + y2 = y1 + last.arg[6]
              /\ (ws = Worksheet(0) /\ last.arg = <<0, 0, 0, 0, 64, 20>>) =>
                    (col_end = 1 /\ row_end = 1 /\ x2 = 0 /\ y2 = 0)


(***************************************************************************)
(* The page, protection, filter, comment and image setters whose state the *)
(* element writers read.                                                   *)
(***************************************************************************)
fit_to_pages(w, width, height) ==
    [w |-> [w EXCEPT !.fit_page = 1, !.fit_width = width, !.fit_height = height,
                     !.page_setup_changed = 1],
     ret |-> None]

set_tab_color(w, color) ==
    [w |-> [w EXCEPT !.tab_color = [ty |-> "color", argb |-> xl_color(color)]], ret |-> None]

outline_settings(w, outline_on, outline_below, outline_right, outline_style) ==
    [w |-> [w EXCEPT !.outline_on = outline_on, !.outline_below = outline_below,
                     !.outline_right = outline_right, !.outline_style = outline_style,
                     !.outline_changed = 1],
     ret |-> None]

protect_defaults ==
    [k \in {"sheet", "content", "objects", "scenarios", "format_cells", "format_columns",
            "format_rows", "insert_columns", "insert_rows", "insert_hyperlinks",
            "delete_columns", "delete_rows", "select_locked_cells", "sort", "autofilter",
            "pivot_tables", "select_unlocked_cells"} |->
        IF k \in {"sheet", "select_locked_cells", "select_unlocked_cells"} THEN 1 ELSE 0]

\* protect() with the password left at its default ''
protect(w, options) ==
    LET defaults == [k \in DOMAIN protect_defaults |->
                        IF k \in DOMAIN options THEN options[k] ELSE protect_defaults[k]]
    IN [w |-> [w EXCEPT !.protect_options = Put(defaults, "password", <<>>)], ret |-> None]

autofilter(w, first_row0, first_col0, last_row0, last_col0) ==
    LET first_row == Min2(first_row0, last_row0)
        last_row == IF last_row0 < first_row0 THEN first_row0 ELSE last_row0
        first_col == Min2(first_col0, last_col0)
        last_col == IF last_col0 < first_col0 THEN first_col0 ELSE last_col0
    IN [w |-> [w EXCEPT !.autofilter_area = <<first_row, first_col, last_row, last_col>>,
                        !.autofilter_ref = <<first_row, first_col, last_row, last_col>>,
                        !.filter_range = <<first_col, last_col>>],
        ret |-> None]

\* filter_column_list with a numeric column
filter_column_list(w, col, filters) ==
    IF w.autofilter_area = <<>> THEN [w |-> w, ret |-> None]
    ELSE IF col < w.filter_range[1] \/ col > w.filter_range[2] THEN [w |-> w, ret |-> None]
    ELSE [w |-> [w EXCEPT !.filter_cols = Put(@, col, filters),
                          !.filter_type = Put(@, col, 1),
                          !.filter_on = 1],
          ret |-> None]

center_horizontally(w) ==
    [w |-> [w EXCEPT !.print_options_changed = 1, !.hcenter = 1], ret |-> None]

set_landscape(w) ==
    [w |-> [w EXCEPT !.orientation = 0, !.page_setup_changed = 1], ret |-> None]

\* set_header() with the margin left at its default
set_header(w, header) ==
    IF Len(header) >= 255 THEN [w |-> w, ret |-> None]
    ELSE [w |-> [w EXCEPT !.header = header, !.header_footer_changed = 1], ret |-> None]

set_h_pagebreaks(w, breaks) == [w |-> [w EXCEPT !.hbreaks = breaks], ret |-> None]

set_v_pagebreaks(w, breaks) == [w |-> [w EXCEPT !.vbreaks = breaks], ret |-> None]

write_comment(w, row, col, comment) ==
    LET cd == _check_dimensions(w, row, col, FALSE, FALSE)
    IN IF cd.ret # 0 THEN [w |-> cd.w, ret |-> -1]
       ELSE IF Len(comment) > xls_strmax THEN [w |-> cd.w, ret |-> -2]
       ELSE [w |-> [cd.w EXCEPT !.has_vml = 1, !.has_comments = 1,
                                !.comments = @ \cup {<<row, col>>}],
             ret |-> None]

\* insert_image() with the offsets and scales left at their defaults
insert_image(w, row, col, image) ==
    [w |-> [w EXCEPT !.images = Append(@, <<row, col, image, 0, 0, 1, 1>>)], ret |-> None]

\* _prepare_image: the drawing object is created once the image is placed
_prepare_image(w, index, width, height) ==
    LET image == w.images[index + 1]
        dimensions == _position_object_pixels(w, image[2], image[1], image[4], image[5],
                                              width * image[6], height * image[7])
    IN IF dimensions.end # "return" THEN [w |-> w, ret |-> dimensions.end]
       ELSE [w |-> [w EXCEPT !.drawing = 1], ret |-> None]

(***************************************************************************)
(* SpecXml: features are switched on, then the sheet is assembled.         *)
(***************************************************************************)
XmlOps == 3
XmlCells == {0, 1}

FitToPages ==
    /\ ~closed /\ left > 0
    /\ \E r \in {fit_to_pages(ws, 1, 0)} :
          Return(Call("fit_to_pages", None, None, None, None, None, TokNone), r)

SetTabColor ==
    /\ ~closed /\ left > 0
    /\ \E r \in {set_tab_color(ws, "red")} :
          Return(Call("set_tab_color", None, None, None, None, None, TokNone), r)

OutlineSettings ==
    /\ ~closed /\ left > 0
    /\ \E r \in {outline_settings(ws, 1, 0, 1, 0)} :
          Return(Call("outline_settings", None, None, None, None, None, TokNone), r)

Protect ==
    /\ ~closed /\ left > 0
    /\ \E r \in {protect(ws, "sort" :> 1)} :
          Return(Call("protect", None, None, None, None, None, TokNone), r)

Autofilter ==
    /\ ~closed /\ left > 0
    /\ \E r \in {autofilter(ws, 0, 0, 1, 1)} :
          Return(Call("autofilter", None, None, None, None, None, TokNone), r)

FilterColumnList ==
    /\ ~closed /\ left > 0
    /\ \E r \in {filter_column_list(ws, 0, <<ShortText>>)} :
          Return(Call("filter_column_list", None, None, None, None, None, TokNone), r)

CenterHorizontally ==
    /\ ~closed /\ left > 0
    /\ \E r \in {center_horizontally(ws)} :
          Return(Call("center_horizontally", None, None, None, None, None, TokNone), r)

SetLandscape ==
    /\ ~closed /\ left > 0
    /\ \E r \in {set_landscape(ws)} :
          Return(Call("set_landscape", None, None, None, None, None, TokNone), r)

SetHeader ==
    /\ ~closed /\ left > 0
    /\ \E r \in {set_header(ws, ShortText)} :
          Return(Call("set_header", None, None, None, None, None, TokNone), r)

SetHPagebreaks ==
    \E breaks \in {{0}, {1}} :
        /\ ~closed /\ left > 0
        /\ \E r \in {set_h_pagebreaks(ws, breaks)} :
              Return(Call("set_h_pagebreaks", None, None, None, None, None, TokNone), r)

SetVPagebreaks ==
    /\ ~closed /\ left > 0
    /\ \E r \in {set_v_pagebreaks(ws, {1})} :
          Return(Call("set_v_pagebreaks", None, None, None, None, None, TokNone), r)

WriteComment ==
    /\ ~closed /\ left > 0
    /\ \E r \in {write_comment(ws, 0, 0, ShortText)} :
          Return(Call("write_comment", None, None, None, None, None, TokNone), r)

InsertImage ==
    /\ ~closed /\ left > 0
    /\ \E r \in {insert_image(ws, 0, 0, ShortText)} :
          Return(Call("insert_image", None, None, None, None, None, TokNone), r)

PrepareImage ==
    /\ ~closed /\ left > 0 /\ Len(ws.images) > 0
    /\ \E r \in {_prepare_image(ws, 0, 64, 20)} :
          Return(Call("_prepare_image", None, None, None, None, None, TokNone), r)

InitXml ==
    /\ ws \in {Worksheet(0), Worksheet(1)}
    /\ twin = Worksheet(0)
    /\ last = NoCall
    /\ left = XmlOps
    /\ closed = FALSE

NextXml ==
    \/ FitToPages \/ SetTabColor \/ OutlineSettings \/ Protect \/ Autofilter
    \/ FilterColumnList \/ CenterHorizontally \/ SetLandscape \/ SetHeader
    \/ SetHPagebreaks \/ SetVPagebreaks \/ WriteComment \/ InsertImage \/ PrepareImage
    \/ SetColumn({0}, {None}, {2}, {FALSE})
    \/ MergeRange({0}, XmlCells, {None})
    \/ ConditionalFormat(XmlCells, {0}, {"type" :> "blanks"})
    \/ DataValidation({0}, {0}, {("validate" :> "integer") @@ ("criteria" :> ">") @@ ("value" :> TokNum(1))})
    \/ WriteUrl({0}, {0}, {None})
    \/ Close

SpecXml == InitXml /\ [][NextXml]_vars

\* The order of the top-level elements of a worksheet part.
ElementOrder ==
    <<"sheetPr", "dimension", "sheetViews", "sheetFormatPr", "cols", "sheetData",
      "sheetProtection", "autoFilter", "mergeCells", "conditionalFormatting",
      "dataValidations", "hyperlinks", "printOptions", "pageMargins", "pageSetup",
      "headerFooter", "rowBreaks", "colBreaks", "drawing", "legacyDrawing">>

ElementRank(name) == CHOOSE i \in 1 .. Len(ElementOrder) : ElementOrder[i] = name

\* the elements that have nothing to say on the sheet
NotApplicable(w) ==
    (IF w.colinfo = <<>> THEN {"cols"} ELSE {})
    \cup (IF w.merge = <<>> THEN {"mergeCells"} ELSE {})
    \cup (IF DOMAIN w.cond_formats = {} THEN {"conditionalFormatting"} ELSE {})
    \cup (IF w.validations = <<>> THEN {"dataValidations"} ELSE {})
    \cup (IF DOMAIN w.hyperlinks = {} THEN {"hyperlinks"} ELSE {})
    \cup (IF w.protect_options = EmptyDict THEN {"sheetProtection"} ELSE {})
    \cup (IF w.autofilter_ref = <<>> THEN {"autoFilter"} ELSE {})
    \cup (IF w.hbreaks \subseteq {0} THEN {"rowBreaks"} ELSE {})
    \cup (IF w.vbreaks \subseteq {0} THEN {"colBreaks"} ELSE {})
    \cup (IF w.comments = {} THEN {"legacyDrawing"} ELSE {})
    \cup (IF w.images = <<>> THEN {"drawing"} ELSE {})

\* C17: the assembled sheet holds its top-level elements in the fixed order,
\* each at most once except conditionalFormatting, and no element that does
\* not apply.
C17_ElementOrder ==
    closed =>
        /\ \A i \in 1 .. Len(ws.xml) : \E k \in 1 .. Len(ElementOrder) : ElementOrder[k] = ws.xml[i]
        /\ \A i, j \in 1 .. Len(ws.xml) :
              i < j => \/ ElementRank(ws.xml[i]) < ElementRank(ws.xml[j])
                       \/ ws.xml[i] = "conditionalFormatting" /\ ws.xml[j] = "conditionalFormatting"
        /\ \A i \in 1 .. Len(ws.xml) : ws.xml[i] \notin NotApplicable(ws)

\* a merge region and the rules of two ranges were assembled
C17_Witness ==
    /\ closed
    /\ \E i \in 1 .. Len(ws.xml) : ws.xml[i] = "mergeCells"
    /\ \E i, j \in 1 .. Len(ws.xml) :
          i < j /\ ws.xml[i] = "conditionalFormatting" /\ ws.xml[j] = "conditionalFormatting"


(***************************************************************************)
(* The view and print scales (worksheet.py:2257-2273, 2679-2699).          *)
(***************************************************************************)
\* an out-of-range zoom is replaced by 100; int() of an integer is the integer
set_zoom(w, zoom) ==
    LET zoom1 == IF zoom < 10 \/ zoom > 400 THEN 100 ELSE zoom
    IN [w |-> [w EXCEPT !.zoom = zoom1], ret |-> None]

\* an out-of-range scale is ignored
set_print_scale(w, scale) ==
    IF scale < 10 \/ scale > 400 THEN [w |-> w, ret |-> None]
    ELSE [w |-> [w EXCEPT !.fit_page = 0, !.print_scale = scale, !.page_setup_changed = 1],
          ret |-> None]

(***************************************************************************)
(* SpecLimits: scales and outline levels inside and outside their ranges.  *)
(***************************************************************************)
LimitOps == 3
Scales == {9, 10, 400, 401}
Levels == {-1, 0, 7, 8}
LimitCells == {0, 1}

SetZoom(Z) ==
    \E zoom \in Z :
        /\ ~closed /\ left > 0
        /\ \E r \in {set_zoom(ws, zoom)} :
              Return(Call("set_zoom", None, None, None, None, None, TokNum(zoom)), r)

SetPrintScale(S) ==
    \E scale \in S :
        /\ ~closed /\ left > 0
        /\ \E r \in {set_print_scale(ws, scale)} :
              Return(Call("set_print_scale", None, None, None, None, None, TokNum(scale)), r)

SetColumnLevel(C, L) ==
    \E firstcol \in C, lastcol \in C, level \in L :
        /\ ~closed /\ left > 0
        /\ \E r \in {set_column(ws, firstcol, lastcol, 2, None, FALSE, level, FALSE)} :
              Return(Call("set_column", None, firstcol, None, lastcol, None,
                          ColArg(2, FALSE, level)), r)

InitLimits ==
    /\ ws \in {Worksheet(0), Worksheet(1)}
    /\ twin = Worksheet(0)
    /\ last = NoCall
    /\ left = LimitOps
    /\ closed = FALSE

NextLimits ==
    \/ SetZoom(Scales)
    \/ SetPrintScale(Scales)
    \/ SetRow(LimitCells \cup {xls_rowmax}, {None}, {None}, Levels)
    \/ SetColumnLevel(LimitCells, Levels)

SpecLimits == InitLimits /\ [][NextLimits]_vars

\* C18: the stored zoom and print scale are in 10..400 and every stored row
\* and column outline level, and the sheet-wide outline_row_level and
\* outline_col_level, are in 0..7.
C18_ScalesAndLevels ==
    /\ ws.zoom \in 10 .. 400
    /\ ws.print_scale \in 10 .. 400
    /\ \A row \in DOMAIN ws.set_rows : ws.set_rows[row][4] \in 0 .. 7
    /\ \A i \in 1 .. Len(ws.colinfo) : ws.colinfo[i][6] \in 0 .. 7
    /\ ws.outline_row_level \in 0 .. 7
    /\ ws.outline_col_level \in 0 .. 7

\* a column given level 8 is stored with level 7 on a sheet whose zoom was
\* set to 400 and whose print scale was set to 10
C18_Witness ==
    /\ last.op = "set_column" /\ last.arg.level = 8
    /\ ws.colinfo # <<>> /\ ws.colinfo[Len(ws.colinfo)][6] = 7
    /\ ws.zoom = 400 /\ ws.print_scale = 10


(***************************************************************************)
(* SpecLinks: hyperlinks and cells of other types written to the same      *)
(* positions of a buffered sheet.                                          *)
(***************************************************************************)
LinkOps == 3
LinkRows == {0}
LinkCols == {0, 1}

InitLinks ==
    /\ ws = Worksheet(0)
    /\ twin = Worksheet(0)
    /\ last = NoCall
    /\ left = LinkOps
    /\ closed = FALSE

NextLinks ==
    \/ WriteUrl(LinkRows, LinkCols, {None})
    \/ WriteString(LinkRows, LinkCols, {None})
    \/ WriteNumber(LinkRows, LinkCols, {None})
    \/ WriteBlank(LinkRows, LinkCols, {None, 1})
    \/ WriteFormula(LinkRows, LinkCols, {None})

SpecLinks == InitLinks /\ [][NextLinks]_vars

TypeError == -8

\* With optimization on the call is refused.  Otherwise, past the checks, no
\* 'name' is in param and the default name 'Table' + table['id'] adds a str
\* and an int (worksheet.py:1996-2017): the call raises before anything is
\* stored in the sheet.
add_table(w, row1, col1, row2, col2) ==
    IF w.optimization = 1 THEN [w |-> w, ret |-> -1]
    ELSE IF _check_dimensions(w, row1, col1, TRUE, TRUE).ret # 0 THEN [w |-> w, ret |-> -2]
    ELSE IF _check_dimensions(w, row2, col2, TRUE, TRUE).ret # 0 THEN [w |-> w, ret |-> -2]
    ELSE [w |-> w, ret |-> TypeError]

(***************************************************************************)
(* SpecStream: cells are written, rows are flushed, and merges, validation *)
(* rules, column records and tables are declared, in both modes.           *)
(***************************************************************************)
StreamOps == 3
StreamRows == {0, 1}
StreamCols == {0, 1}

AddTable(R, C) ==
    \E row1 \in R, col1 \in C, row2 \in R, col2 \in C :
        /\ ~closed /\ left > 0
        /\ \E r \in {add_table(ws, row1, col1, row2, col2)} :
              Return(Call("add_table", row1, col1, row2, col2, None, TokNone), r)

InitStream ==
    /\ ws \in {Worksheet(0), Worksheet(1)}
    /\ twin = Worksheet(0)
    /\ last = NoCall
    /\ left = StreamOps
    /\ closed = FALSE

NextStream ==
    \/ WriteNumber(StreamRows, StreamCols, {None})
    \/ MergeRange(StreamRows, StreamCols, {1})
    \/ DataValidation({0}, {0}, {("validate" :> "integer") @@ ("criteria" :> ">") @@ ("value" :> TokNum(1))})
    \/ SetColumn(StreamCols, {None}, {2}, {FALSE})
    \/ AddTable(StreamRows \cup {xls_rowmax}, {0})

SpecStream == InitStream /\ [][NextStream]_vars

\* the columns of the cells already written to the row data
EmittedCols(w) ==
    {w.row_data[i].cells[j].col : <<i, j>> \in
        {p \in (1 .. Len(w.row_data)) \X (0 .. xls_colmax) :
            p[2] \in 1 .. Len(w.row_data[p[1]].cells)}}

\* the call is one of the declarations the claim has refused
RefusedWhenStreaming(c, w) ==
    \/ c.op \in {"merge_range", "data_validation", "add_table"}
    \/ c.op = "set_column"
          /\ \E col \in EmittedCols(w) : Min2(c.col, c.last_col) <= col
                                         /\ col <= c.col + c.last_col - Min2(c.col, c.last_col)

NothingRecorded ==
    /\ ws'.merge = ws.merge /\ ws'.validations = ws.validations
    /\ ws'.colinfo = ws.colinfo /\ ws'.tables = ws.tables
    /\ ws'.table = ws.table /\ ws'.row_data = ws.row_data

\* C20: with optimization = 1, merge_range, data_validation, add_table and a
\* set_column on a column whose cells were already emitted return a failure
\* and record no merge region, validation rule, column record, table or cell.
C20_StreamingRejects ==
    [][(Called /\ ws.optimization = 1 /\ RefusedWhenStreaming(last', ws)) =>
          (last'.ret \in -5 .. -1 /\ NothingRecorded)]_vars


(***************************************************************************)
(* SpecSpill: cells and row overrides are written, then the sheet is       *)
(* assembled; the temp file of the row data is followed from _initialize   *)
(* to the close.                                                           *)
(***************************************************************************)
SpillOps == 3
SpillRows == {0, 1}
SpillCols == {0, 1}

InitSpill ==
    /\ ws \in {Worksheet(0), Worksheet(1)}
    /\ twin = Worksheet(0)
    /\ last = NoCall
    /\ left = SpillOps
    /\ closed = FALSE

NextSpill ==
    \/ WriteNumber(SpillRows, SpillCols, {None})
    \/ WriteString(SpillRows, SpillCols, {None})
    \/ SetRow(SpillRows, {None, 1}, {None}, {0})
    \/ Close

SpecSpill == InitSpill /\ [][NextSpill]_vars

\* C21: the temp file of a streaming sheet is open and present from
\* _initialize until the close, rows are only appended to it, and after the
\* close it is closed and removed, also when nothing was ever written; a
\* buffered sheet has no temp file.
C21_SpillFileDrained ==
    /\ ws.optimization = 0 => ws.row_data_fh = "none" /\ ws.row_data_filename = "none"
    /\ (ws.optimization = 1 /\ ~closed) =>
          ws.row_data_fh = "open" /\ ws.row_data_filename = "present"
    /\ (ws.optimization = 1 /\ closed) =>
          ws.row_data_fh = "closed" /\ ws.row_data_filename = "removed"


(***************************************************************************)
(* SpecUrl: write_url calls that succeed and that fail in each way.        *)
(***************************************************************************)
UrlOps == 3
UrlRows == {0, xls_rowmax}
UrlCols == {0, 1}

InitUrl ==
    /\ ws \in {Worksheet(0), Worksheet(1)}
    /\ twin = Worksheet(0)
    /\ last = NoCall
    /\ left = UrlOps
    /\ closed = FALSE

NextUrl == WriteUrl(UrlRows, UrlCols, {None})

SpecUrl == InitUrl /\ [][NextUrl]_vars

\* C22: a write_url call out of bounds fails, and a write_url call that
\* fails returns a non-zero code and leaves the cell store, the hyperlinks,
\* the dimension and the hyperlink counter as they were.
C22_FailedUrlChangesNothing ==
    [][(Called /\ last'.op = "write_url") =>
        /\ OutOfBounds(last') => last'.ret # 0
        /\ last'.ret # 0 =>
              /\ last'.ret \in -5 .. -1
              /\ ws'.table = ws.table /\ ws'.hyperlinks = ws.hyperlinks
              /\ ws'.dim_rowmin = ws.dim_rowmin /\ ws'.dim_rowmax = ws.dim_rowmax
              /\ ws'.dim_colmin = ws.dim_colmin /\ ws'.dim_colmax = ws.dim_colmax
              /\ ws'.hlink_count = ws.hlink_count]_vars


(***************************************************************************)
(* SpecMerge: merge_range calls whose range lies inside the sheet, crosses *)
(* the last column or last row, or starts above the current row of a       *)
(* streaming sheet.                                                        *)
(***************************************************************************)
MergeOps == 2
MergeRows == {0, 1, xls_rowmax}
MergeCols == {0, xls_colmax}

InitMerge ==
    /\ ws \in {Worksheet(0), Worksheet(1)}
    /\ twin = Worksheet(0)
    /\ last = NoCall
    /\ left = MergeOps
    /\ closed = FALSE

NextMerge ==
    \/ MergeRange(MergeRows, MergeCols, {1})
    \/ WriteNumber({1}, {0}, {None})

SpecMerge == InitMerge /\ [][NextMerge]_vars

\* C23: a merge_range call with a corner out of bounds, or on a streaming
\* sheet with its first row above the current row, records no merge region,
\* writes no cell and does not change the dimension.
C23_MergeAllOrNothing ==
    [][(Called /\ last'.op = "merge_range"
          /\ (~RangeInBounds(last')
                \/ (ws.optimization = 1 /\ AnchorRow(last') < ws.previous_row))) =>
        /\ ws'.merge = ws.merge
        /\ ws'.table = ws.table /\ ws'.row_data = ws.row_data
        /\ ws'.dim_rowmin = ws.dim_rowmin /\ ws'.dim_rowmax = ws.dim_rowmax
        /\ ws'.dim_colmin = ws.dim_colmin /\ ws'.dim_colmax = ws.dim_colmax]_vars


(***************************************************************************)
(* write_row and write_column (worksheet.py:865-909).                      *)
(***************************************************************************)
\* `if error: return error`: 0 and None are the values that let the loop go on
RECURSIVE write_row(_, _, _, _, _)
write_row(w, row, col, data, cell_format) ==
    IF data = <<>> THEN [w |-> w, ret |-> 0]
    ELSE LET Rest(r) == IF r.ret # 0 /\ r.ret # None THEN r
                        ELSE write_row(r.w, row, col + 1, Tail(data), cell_format)
         IN Rest(write(w, row, col, Head(data), cell_format))

RECURSIVE write_column(_, _, _, _, _)
write_column(w, row, col, data, cell_format) ==
    IF data = <<>> THEN [w |-> w, ret |-> 0]
    ELSE LET Rest(r) == IF r.ret # 0 /\ r.ret # None THEN r
                        ELSE write_column(r.w, row + 1, col, Tail(data), cell_format)
         IN Rest(write(w, row, col, Head(data), cell_format))

(***************************************************************************)
(* SpecRuns: runs of tokens written along a row or down a column, inside   *)
(* the sheet and across its last column or row.                            *)
(***************************************************************************)
RunOps == 2
RunRows == {0, xls_rowmax - 1}
RunCols == {0, xls_colmax - 1}
RunTokens == {TokNum(5), TokStr(ShortText), TokStr(LongText)}
RunData == {<<a>> : a \in RunTokens} \cup {<<a, b>> : a \in RunTokens, b \in RunTokens}

WriteRow(R, C, D) ==
    \E row \in R, col \in C, data \in D :
        /\ ~closed /\ left > 0
        /\ \E r \in {write_row(ws, row, col, data, None)} :
              Return(Call("write_row", row, col, row, col, None, data), r)

WriteColumn(R, C, D) ==
    \E row \in R, col \in C, data \in D :
        /\ ~closed /\ left > 0
        /\ \E r \in {write_column(ws, row, col, data, None)} :
              Return(Call("write_column", row, col, row, col, None, data), r)

InitRuns ==
    /\ ws \in {Worksheet(0), Worksheet(1)}
    /\ twin = Worksheet(0)
    /\ last = NoCall
    /\ left = RunOps
    /\ closed = FALSE

NextRuns ==
    \/ WriteRow(RunRows, RunCols, RunData)
    \/ WriteColumn(RunRows, RunCols, RunData)

SpecRuns == InitRuns /\ [][NextRuns]_vars

\* the single-cell write that token i of the run of call c amounts to
TokenWrite(c, i) ==
    LET row == IF c.op = "write_row" THEN c.row ELSE c.row + i - 1
        col == IF c.op = "write_row" THEN c.col + i - 1 ELSE c.col
    IN Call(write_method(c.arg[i]), row, col, row, col, c.cell_format, c.arg[i])

\* C24: a write_row or write_column call one of whose tokens fails stores
\* no token and leaves the dimension as it was; a call all of whose tokens
\* succeed returns 0 and, on a buffered sheet, holds token i at column
\* col + i (write_row) or row row + i (write_column).
C24_RunAllOrNothing ==
    [][(Called /\ last'.op \in {"write_row", "write_column"}) =>
        IF last'.ret # 0
        THEN /\ ws'.table = ws.table /\ ws'.row_data = ws.row_data
             /\ ws'.dim_rowmin = ws.dim_rowmin /\ ws'.dim_rowmax = ws.dim_rowmax
             /\ ws'.dim_colmin = ws.dim_colmin /\ ws'.dim_colmax = ws.dim_colmax
        ELSE ws.optimization = 0 =>
                \A i \in 1 .. Len(last'.arg) : HoldsCellOf(ws', TokenWrite(last', i))]_vars


\* C25: the absolute offset _position_object_pixels returns is the pixel
\* widths of the columns 0 .. col_start - 1 plus x1 and the pixel heights of
\* the rows 0 .. row_start - 1 plus y1, whichever way the size-changed flags
\* make it computed.
C25_AbsoluteOffset ==
    (last.op = "_position_object_pixels" /\ last.ret.end = "return") =>
        LET col_start == last.arg[1]  row_start == last.arg[2]
            x1 == last.arg[3]         y1 == last.arg[4]
            x_abs == last.ret.val[9]  y_abs == last.ret.val[10]
        IN /\ x_abs = SumCols(ws, 0, col_start) + x1
           /\ y_abs = SumRows(ws, 0, row_start) + y1


(***************************************************************************)
(* SpecSize: columns and rows are sized and hidden, then their pixel sizes *)
(* are looked up.                                                          *)
(***************************************************************************)
SizeOps == 3
SizeCells == {0, 1}

SetRowHidden(R, H) ==
    \E row \in R, height \in H :
        /\ ~closed /\ left > 0
        /\ \E r \in {set_row(ws, row, height, None, TRUE, 0, FALSE)} :
              Return(Call("set_row", row, None, row, None, None,
                          RowArg(height, TRUE, 0)), r)

SizeCol(C) ==
    \E col \in C :
        /\ ~closed /\ left > 0
        /\ \E r \in {_size_col(ws, col)} :
              Return(Call("_size_col", None, col, None, col, None, TokNone),
                     [w |-> ws, ret |-> r])

SizeRow(R) ==
    \E row \in R :
        /\ ~closed /\ left > 0
        /\ \E r \in {_size_row(ws, row)} :
              Return(Call("_size_row", row, None, row, None, None, TokNone),
                     [w |-> ws, ret |-> r])

InitSize ==
    /\ ws = Worksheet(0)
    /\ twin = Worksheet(0)
    /\ last = NoCall
    /\ left = SizeOps
    /\ closed = FALSE

NextSize ==
    \/ SetColumn(SizeCells, {None}, {2, 5}, {FALSE, TRUE})
    \/ SetRow(SizeCells, {None}, {None, 30, 0}, {0})
    \/ SetRowHidden(SizeCells, {None, 30})
    \/ SetDefaultRow({30})
    \/ SizeCol(SizeCells)
    \/ SizeRow(SizeCells)

SpecSize == InitSize /\ [][NextSize]_vars

\* the set_column calls recorded for a column, in the order of the calls
Covering(w, col) ==
    {i \in 1 .. Len(w.colinfo) : w.colinfo[i][1] <= col /\ col <= w.colinfo[i][2]}

LatestCovering(w, col) ==
    w.colinfo[CHOOSE i \in Covering(w, col) : \A j \in Covering(w, col) : j <= i]

\* C26: _size_col is 64 for a column no set_column call covers, 0 when the
\* latest call that covers it hid it, and the pixels of the width of that
\* call otherwise; _size_row is the pixels of the default height for a row
\* without an override, 0 for a row hidden by height 0 or by the hidden
\* option, and the pixels of its height otherwise.
C26_HiddenIsZero ==
    /\ last.op = "_size_col" =>
          IF Covering(ws, last.col) = {} THEN last.ret.pixels = 64
          ELSE IF LatestCovering(ws, last.col)[5] THEN last.ret.pixels = 0
          ELSE last.ret.pixels = LatestCovering(ws, last.col)[3] * 7 + 5
    /\ last.op = "_size_row" =>
          IF last.row \notin DOMAIN ws.set_rows
          THEN last.ret = int_div(4 * ws.default_row_height, 3)
          ELSE IF ws.set_rows[last.row][3] = 1 THEN last.ret = 0
          ELSE last.ret = int_div(4 * ws.set_rows[last.row][1], 3)

(***************************************************************************)
(* SpecFormula: the conditional formats whose formula conditional_format   *)
(* writes itself, over ranges with every top-left cell of a 2 x 2 block.   *)
(***************************************************************************)
FormulaOps == 1
FormulaRows == {0, 1}
FormulaCols == {0, 1}

FormulaOptions ==
    {("type" :> "text") @@ ("criteria" :> c) @@ ("value" :> TokStr(ShortText)) :
        c \in {"containing", "not containing", "begins with", "ends with"}}
    \cup {("type" :> t) : t \in {"blanks", "no_blanks", "errors", "no_errors"}}
    \cup {("type" :> "time_period") @@ ("criteria" :> c) :
            c \in {"yesterday", "today", "tomorrow", "last 7 days", "last week", "this week",
                   "continue week", "last month", "this month", "continue month"}}

InitFormula ==
    /\ ws \in {Worksheet(0), Worksheet(1)}
    /\ twin = Worksheet(0)
    /\ last = NoCall
    /\ left = FormulaOps
    /\ closed = FALSE

NextFormula == ConditionalFormat(FormulaRows, FormulaCols, FormulaOptions)

SpecFormula == InitFormula /\ [][NextFormula]_vars

\* the A1-style names of the cells of the block
ColumnLetters == <<"A", "B", "C">>
CellName(row, col) == ColumnLetters[col + 1] \o ToString(row + 1)
CellNames == {CellName(row, col) : row \in 0 .. 2, col \in 0 .. 2}

SynthesizedTypes ==
    {"containsText", "notContainsText", "beginsWith", "endsWith", "containsBlanks",
     "notContainsBlanks", "containsErrors", "notContainsErrors", "timePeriod"}

\* the piece of a formula names the cell (row, col) or no cell at all
NamesOnly(piece, row, col) ==
    /\ piece.kind = "cell" => piece.row = row /\ piece.col = col
    /\ piece.kind = "text" /\ piece.text \in CellNames => piece.text = CellName(row, col)

\* C27: in every rule whose formula conditional_format synthesizes (the text
\* rules, blanks, no_blanks, errors, no_errors and every time_period rule),
\* each cell reference of the formula is the top-left cell of the rule's
\* range; no formula names another, fixed cell.
C27_FormulaNamesAnchor ==
    \A k \in DOMAIN ws.cond_formats : \A i \in 1 .. Len(ws.cond_formats[k]) :
        LET rule == ws.cond_formats[k][i]
        IN rule["type"] \in SynthesizedTypes /\ "formula" \in DOMAIN rule =>
              \A j \in 1 .. Len(rule["formula"]) : NamesOnly(rule["formula"][j], k[1], k[2])

(***************************************************************************)
(* SpecSpans: cells and comments in the rows of three blocks of 16 rows of *)
(* a buffered sheet, then the serialisation.  The sheet has a row limit    *)
(* that leaves room for the three blocks.                                  *)
(***************************************************************************)
SpanOps == 3
SpanRowMax == 48
SpanRows == {0, 15, 16, 32}
SpanCols == {0, 1}
SpanBlocks == 0 .. 2

WriteCommentAt(R, C) ==
    \E row \in R, col \in C :
        /\ ~closed /\ left > 0
        /\ \E r \in {write_comment(ws, row, col, ShortText)} :
              Return(Call("write_comment", row, col, row, col, None, TokNone), r)

InitSpans ==
    /\ ws = [Worksheet(0) EXCEPT !.xls_rowmax = SpanRowMax]
    /\ twin = Worksheet(0)
    /\ last = NoCall
    /\ left = SpanOps
    /\ closed = FALSE

NextSpans ==
    \/ WriteNumber(SpanRows, SpanCols, {None})
    \/ WriteCommentAt(SpanRows, SpanCols)
    \/ SetRow({17}, {None}, {None}, {0})
    \/ Close

SpecSpans == InitSpans /\ [][NextSpans]_vars

\* the columns of the dimension that hold a cell or a comment in the rows
\* 16k .. 16k+15 of the dimension
BlockColumns(w, k) ==
    {c \in w.dim_colmin .. w.dim_colmax :
        \E r \in w.dim_rowmin .. w.dim_rowmax :
            /\ r \in 16 * k .. 16 * k + 15
            /\ <<r, c>> \in DOMAIN w.table \/ <<r, c>> \in w.comments}

\* C28: in buffered mode, once the sheet is serialised, every block of 16
\* rows with an occupied column (a cell or a comment) has the span from its
\* own lowest to its own highest occupied column, counted from 1, and a
\* block with no occupied column has no span; the other blocks do not count.
C28_SpansPerBlock ==
    closed /\ ws.optimization = 0 /\ ws.dim_rowmin # None =>
        \A k \in SpanBlocks :
            LET occupied == BlockColumns(ws, k)
            IN IF occupied = {} THEN k \notin DOMAIN ws.row_spans
               ELSE /\ k \in DOMAIN ws.row_spans
                    /\ \E lo \in occupied, hi \in occupied :
                          /\ \A c \in occupied : lo <= c /\ c <= hi
                          /\ ws.row_spans[k] = <<lo + 1, hi + 1>>

\* a serialised sheet whose first block spans both columns, whose second
\* block has no span, and whose third block spans only the second column
C28_Witness ==
    /\ closed
    /\ DOMAIN ws.row_spans = {0, 2}
    /\ ws.row_spans[0] = <<1, 2>>
    /\ ws.row_spans[2] = <<2, 2>>
    /\ ws.comments # {}

(***************************************************************************)
(* filter_column (worksheet.py:1308-1365) with a numeric column, and       *)
(* SpecColumnFilter: criteria of zero to eight tokens, before and after    *)
(* autofilter().                                                           *)
(***************************************************************************)
\* the exceptions that leave filter_column: tokens[1] or tokens[2] of a list
\* of fewer than three tokens, and int() of a token that is no number
IndexError == -6
ValueError == -10

filter_column(w, col, criteria) ==
    LET \* the branches on the parsed tokens, then self.filter_on = 1
        Record(tokens) ==
            LET Single == Len(tokens) = 2 /\ tokens[1] = 2
                Double == Len(tokens) = 5 /\ tokens[1] = 2 /\ tokens[3] = 1 /\ tokens[4] = 2
                w1 == IF Single THEN filter_column_list(w, col, <<tokens[2]>>).w
                      ELSE IF Double THEN filter_column_list(w, col, <<tokens[2], tokens[5]>>).w
                      ELSE [w EXCEPT !.filter_cols = Put(@, col, tokens),
                                     !.filter_type = Put(@, col, 0)]
            IN [w1 EXCEPT !.filter_on = 1]
        \* a wrong number of tokens is warned about and parsed all the same
        Parse(tokens, parsed) ==
            IF parsed.raised
            THEN [w |-> w, ret |-> IF Len(tokens) < 3 THEN IndexError ELSE ValueError]
            ELSE [w |-> Record(parsed.val), ret |-> None]
        Tokens(tokens) == Parse(tokens, _parse_filter_expression(w, criteria, tokens))
    IN IF w.autofilter_area = <<>> THEN [w |-> w, ret |-> None]
       ELSE IF col < w.filter_range[1] \/ col > w.filter_range[2] THEN [w |-> w, ret |-> None]
       ELSE Tokens(_extract_filter_tokens(w, criteria))

ColumnFilterOps == 3
FilterCols == {0, 2}
\* the words of the criteria 'x > 2000 and x < 5000 or'
CriteriaWords == <<<<"x">>, <<">">>, V2000, <<"a", "n", "d">>, <<"x">>, <<"<">>, V5000, <<"o", "r">>>>
\* its first n words, for n from 0 to 8, and a comparison with '=='
Criterias == {Words(SubSeq(CriteriaWords, 1, n)) : n \in 0 .. 8} \cup {Words(<<<<"x">>, <<"=", "=">>, V2000>>)}

FilterColumn(C, E) ==
    \E col \in C, criteria \in E :
        /\ ~closed /\ left > 0
        /\ \E r \in {filter_column(ws, col, criteria)} :
              Return(Call("filter_column", None, col, None, col, None, criteria), r)

InitColumnFilter ==
    /\ ws = Worksheet(0)
    /\ twin = Worksheet(0)
    /\ last = NoCall
    /\ left = ColumnFilterOps
    /\ closed = FALSE

NextColumnFilter ==
    \/ Autofilter
    \/ FilterColumn(FilterCols, Criterias)

SpecColumnFilter == InitColumnFilter /\ [][NextColumnFilter]_vars

FilterUnchanged ==
    /\ ws'.filter_cols = ws.filter_cols
    /\ ws'.filter_type = ws.filter_type
    /\ ws'.filter_on = ws.filter_on

\* C29: filter_column records a filter only when autofilter() was declared
\* before, the column lies in the column range of the autofilter and the
\* criteria has exactly 3 or exactly 7 tokens; with any other number of
\* tokens the call returns normally and leaves filter_cols, filter_type and
\* filter_on as they were.
C29_FilterNeedsThreeOrSeven ==
    [][Called /\ last'.op = "filter_column" =>
          LET n == Len(_extract_filter_tokens(ws, last'.arg))
          IN /\ ~FilterUnchanged =>
                   /\ ws.autofilter_area # <<>>
                   /\ last'.col >= ws.filter_range[1] /\ last'.col <= ws.filter_range[2]
                   /\ n \in {3, 7}
             /\ n \notin {3, 7} => last'.ret = None /\ FilterUnchanged]_vars

(***************************************************************************)
(* SpecRel: external and internal links, a comment and an image, then the  *)
(* serialisation with its r:id attributes.                                 *)
(***************************************************************************)
RelOps == 5
RelRows == {0, 1}
RelCols == {0, 1}

WriteLink(R, C) ==
    \E row \in R, col \in C, arg \in {UrlArg(HttpUrl, NoStr), UrlArg(InternalUrl, ShortText)} :
        /\ ~closed /\ left > 0
        /\ \E r \in {write_url(ws, row, col, arg.s, None, arg.string, None)} :
              Return(Call("write_url", row, col, row, col, None, arg), r)

InitRel ==
    /\ ws = Worksheet(0)
    /\ twin = Worksheet(0)
    /\ last = NoCall
    /\ left = RelOps
    /\ closed = FALSE

NextRel ==
    \/ WriteLink(RelRows, RelCols)
    \/ WriteComment
    \/ InsertImage
    \/ PrepareImage
    \/ Close

SpecRel == InitRel /\ [][NextRel]_vars

\* the external links at or before the cell k in row then column order
LinksUpTo(w, k) ==
    {j \in external_hyper_links(w) : j[1] < k[1] \/ (j[1] = k[1] /\ j[2] <= k[2])}

\* C30: in a serialised sheet the r:id attributes are pairwise distinct: the
\* k external hyperlinks have the ids 1 .. k in row then column order, and
\* when the sheet has both an embedded drawing and a legacy drawing the
\* drawing and the legacyDrawing element have two different ids, each
\* greater than k.
C30_RelationshipIdsDistinct ==
    closed =>
        LET links == external_hyper_links(ws)
            k == Cardinality(links)
        IN /\ DOMAIN ws.r_ids.hyperlinks = links
           /\ \A c \in links : ws.r_ids.hyperlinks[c] = Cardinality(LinksUpTo(ws, c))
           /\ ws.drawing # 0 /\ ws.has_vml # 0 =>
                 /\ ws.r_ids.drawing # ws.r_ids.legacyDrawing
                 /\ ws.r_ids.drawing > k
                 /\ ws.r_ids.legacyDrawing > k

====
